---- MODULE Spec2Model ----
(***************************************************************************)
(* temp-email-cli: the address store (StorageService), the mailbox         *)
(* provider client (EmailService) and the program that drives them         *)
(* (index.js, CLIInterface), modelled as state machines. A call of an      *)
(* async method is a sequence of steps, one for each file access, provider *)
(* request or timer it awaits, and the calls in progress take their steps  *)
(* in any order: how long a timer or an answer takes is left open.         *)
(*                                                                         *)
(*   SpecStore   the StorageService methods on the backing file            *)
(*   SpecClient  the EmailService methods, request by request and timer    *)
(*               by timer                                                  *)
(*   SpecApp     index.js: startup, then the menu commands, call by call   *)
(*   SpecUsername  the username createEmailAddress generates               *)
(***************************************************************************)
EXTENDS Integers, Sequences, FiniteSets, TLC

VARIABLES
    \* ---- StorageService ----
    dirExists,      \* the directory of the backing file exists
    fileExists,     \* the backing file exists
    fileData,       \* the JSON array held by the backing file
    fileTorn,       \* the content of the backing file is no JSON text
    initialized,    \* this.initialized
    now,            \* the system clock (ms), as read by new Date()
    ticks,          \* how many times the clock has advanced
    calls,          \* the calls of store methods in progress
    storeOp,        \* the store call that returned in the last step, if any
    storeRet        \* what that call returned

storeVars == <<dirExists, fileExists, fileData, fileTorn, initialized, now,
               ticks, calls, storeOp, storeRet>>

VARIABLES
    \* ---- EmailService ----
    thisMaxRetries, \* this.maxRetries
    thisRetryDelay, \* this.retryDelay
    authHeader,     \* this.client.defaults.headers.common['Authorization']
    clientCalls     \* the calls of client methods: in each activation the
                    \* call in progress, or the last one that ran there

clientVars == <<thisMaxRetries, thisRetryDelay, authHeader, clientCalls>>

VARIABLES
    \* ---- index.js ----
    appPc,          \* where the process stands: "start" (main entered), "menu"
                    \* (the menu prompt), "pause" (the Enter prompt) or the
                    \* command that is running
    startedAt,      \* the clock when main ran its startup step
    reported,       \* what createNewEmail printed last: "none", "success", "error"
    called,         \* how many operations the running function has started
    inFlight,       \* the operations started and not completed: calls of
                    \* the client and of the store, and prompts of a command
    handler,        \* the block the Enter prompt was called from: the try
                    \* ("try") or the catch block ("catch") of handleCommand,
                    \* or the catch block of showMainMenu ("menu")
    frames,         \* the calls of handleCommand that wait for showMainMenu
                    \* to return, the innermost last: the block each waits in
    locals          \* the local variables of the running command

appVars == <<appPc, startedAt, reported, called, inFlight, handler, frames,
             locals>>

VARIABLES
    \* ---- createEmailAddress: the username generator ----
    username,       \* the username generated last (its characters)
    lengths         \* the lengths of the usernames generated so far

genVars == <<username, lengths>>

VARIABLES
    \* ---- the surroundings of the process ----
    zone,           \* the time zone: when its clock changes, and by how much
    callers,        \* how many calls the user of a class keeps in progress
    made,           \* how many calls a user that overlaps them has made
    direct,         \* the user of the client calls setAuthToken and
                    \* clearAuthToken itself
    detours,        \* how many steps have left the course on which every
                    \* access and request succeeds and no clock read drifts
    rejections      \* how many prompts have rejected

\* What a run starts with and keeps.
userVars == <<zone, callers, direct>>

envVars == <<userVars, made, detours, rejections>>

vars == <<storeVars, clientVars, appVars, genVars, envVars>>

(***************************************************************************)
(* Bounds of the model.                                                    *)
(***************************************************************************)
MaxTicks == 1
MaxRecords == 2

\* At most MaxInFlight calls of a class are in progress at a time; a user
\* that overlaps its calls makes MaxOverlapCalls of them on the client and
\* MaxOverlapStoreCalls on the store.
MaxInFlight == 2
MaxOverlapCalls == 3
MaxOverlapStoreCalls == 2

\* Where the calls overlap, the header methods are called from outside or the
\* zone changes its clock, at most MaxDetours steps of a run leave the course
\* on which every access and request succeeds; the prompts of a run reject
\* at most MaxRejections times.
MaxDetours == 1
MaxRejections == 2

(***************************************************************************)
(* JavaScript values. Every value is a record of one shape, so that any    *)
(* two values can be compared.                                             *)
(***************************************************************************)
Undefined == [t |-> "undefined", n |-> 0, s |-> <<>>]

\* A string is the sequence of the pieces it was put together from.
Str(pieces) == [t |-> "string", n |-> 0, s |-> pieces]
Lit(text) == Str(<<text>>)

\* `${a}${b}` of two strings.

\* Date.prototype.toISOString of the instant ms: a string naming that instant.
ToISOString(ms) == [t |-> "isodate", n |-> ms, s |-> <<>>]

\* new Date(v) for a stored value v: a valid instant only for a date string.
NewDate(v) ==
    IF v.t = "isodate" THEN [valid |-> TRUE, ms |-> v.n]
    ELSE [valid |-> FALSE, ms |-> 0]

\* An object is a function from its own keys to values.
EmptyObject == [k \in {} |-> Undefined]

\* o.k: undefined when o has no key k.
Get(o, k) == IF k \in DOMAIN o THEN o[k] ELSE Undefined

\* { ...a, ...b }: the keys of both, b's value where both have the key.
Spread(a, b) ==
    [k \in (DOMAIN a) \cup (DOMAIN b) |-> IF k \in DOMAIN b THEN b[k] ELSE a[k]]

\* JSON.parse(JSON.stringify(o)) of one record: keys holding undefined are dropped.
JsonObject(o) == [k \in {j \in DOMAIN o : o[j] # Undefined} |-> o[k]]

\* JSON.parse(JSON.stringify(list)) of the collection.
JsonArray(list) == [i \in 1..Len(list) |-> JsonObject(list[i])]

(***************************************************************************)
(* StorageService. A call of a method runs up to its first await and then  *)
(* goes on file access by file access; the calls in progress take their    *)
(* steps in any order.                                                     *)
(***************************************************************************)
expirationDays == 7
DayMs == 86400000
HourMs == 3600000

\* The time zone of the process: the instant at which its clock changes
\* between winter and summer time, and by how much an instant falls short of
\* or exceeds whole days when the local time of day is kept across the change:
\* an hour short where the clock is put forward (spring), an hour over where
\* it is put back (autumn).
NoZoneChange == [at |-> 0, shift |-> 0]

\* The zones: one that keeps its offset; a change in spring and one in autumn
\* three days after the first instant of the model's clock; and a change in
\* spring seven days after it, so that the local time seven days after that
\* first instant is one the clock skips.
Zones ==
    {NoZoneChange}
    \cup {[at |-> 3 * DayMs, shift |-> s] : s \in {0 - HourMs, HourMs}}
    \cup {[at |-> 7 * DayMs, shift |-> 0 - HourMs]}

\* By how much the zone z shifts the instant days after ms of equal local
\* time. The local time aimed at is read with the offset after the change
\* when that makes it an instant after the change; a local time the clock
\* skips (spring), and one it shows twice (autumn), is read with the offset
\* before the change.
ZoneShift(z, ms, days) ==
    LET shifted == ms + days * DayMs + z.shift
        skipped == z.shift < 0 /\ shifted < z.at
    IN  IF ms < z.at /\ z.at <= ms + days * DayMs /\ ~skipped
        THEN z.shift ELSE 0

\* expiresAt.setDate(expiresAt.getDate() + days): the local date moves on by
\* days and the local time of day stays, so the instant moves by days of 24
\* hours and by the shift of the zone's clock in between.
SetDatePlus(ms, days, shift) == ms + days * DayMs + shift

ExpirationMs == expirationDays * DayMs

NotExpiredOrEqual(record, nowMs) ==
    LET expiresAt == NewDate(Get(record, "expiresAt"))
    IN  expiresAt.valid /\ expiresAt.ms >= nowMs

\* expiresAt > now, as the filters of getAddresses and cleanupExpired compare.
NotExpired(record, nowMs) ==
    LET expiresAt == NewDate(Get(record, "expiresAt"))
    IN  expiresAt.valid /\ expiresAt.ms > nowMs

\* list.filter(pred)
RECURSIVE FilterSeq(_, _, _)
FilterSeq(list, nowMs, i) ==
    IF i > Len(list) THEN <<>>
    ELSE IF NotExpired(list[i], nowMs)
         THEN <<list[i]>> \o FilterSeq(list, nowMs, i + 1)
         ELSE FilterSeq(list, nowMs, i + 1)

\* addresses.filter(item => item.address !== address)
RECURSIVE WithoutAddress(_, _, _)
WithoutAddress(list, address, i) ==
    IF i > Len(list) THEN <<>>
    ELSE IF Get(list[i], "address") # address
         THEN <<list[i]>> \o WithoutAddress(list, address, i + 1)
         ELSE WithoutAddress(list, address, i + 1)

\* addresses.findIndex(item => item.address === address); 0 stands for -1.
FindIndex(list, address) ==
    IF \E i \in 1..Len(list) : Get(list[i], "address") = address
    THEN CHOOSE i \in 1..Len(list) :
            /\ Get(list[i], "address") = address
            /\ \A j \in 1..(i - 1) : Get(list[j], "address") # address
    ELSE 0

\* The backing file: whether it exists, the JSON array it holds, and whether
\* its content is torn: cut short, or put together from two writes. A torn
\* file holds no array.
File == [exists |-> fileExists, data |-> fileData, torn |-> fileTorn]

Torn == [exists |-> TRUE, data |-> <<>>, torn |-> TRUE]

\* fs.writeFile, its first half: the file is opened for writing, which creates
\* it or cuts it to length 0; when the open fails the file is left alone.
OpenForWrite(file, openOk) ==
    IF openOk THEN [exists |-> TRUE, data |-> <<>>, torn |-> FALSE] ELSE file

\* fs.writeFile, its second half: JSON.stringify(list) is written from the
\* start of the opened file, and the write ends with all the data written
\* ("written"), with an error and nothing written ("nothing") or with an
\* error and the data written in part ("short"). Written over the longer
\* data of another write (mixed) it leaves that data's tail behind it.
WriteToFile(file, list, outcome, mixed) ==
    IF outcome = "written"
    THEN IF mixed THEN Torn
         ELSE [exists |-> TRUE, data |-> JsonArray(list), torn |-> FALSE]
    ELSE IF outcome = "short" THEN Torn
    ELSE file

\* What _readFromFile returns once initialized: the array of the file, [] for
\* an empty file, and [] when fs.readFile or JSON.parse throws.
ReadFromFile(file, readOk) ==
    IF readOk /\ file.exists /\ ~file.torn THEN file.data ELSE <<>>

\* The object saveAddress builds from its arguments and two clock reads.
AddressData(address, metadata, tExpires, tUpdated, shift) ==
    Spread(Spread([k \in {"address"} |-> address], metadata),
           [k \in {"expiresAt", "updatedAt"} |->
               IF k = "expiresAt"
               THEN ToISOString(SetDatePlus(tExpires, expirationDays, shift))
               ELSE ToISOString(tUpdated)])

\* The collection saveAddress writes back.
SaveResult(addresses, address, metadata, tExpires, tUpdated, tCreated, shift) ==
    LET existingIndex == FindIndex(addresses, address)
        addressData == AddressData(address, metadata, tExpires, tUpdated, shift)
    IN  IF existingIndex # 0
        THEN [addresses EXCEPT ![existingIndex] = Spread(@, addressData)]
        ELSE Append(addresses,
                    Spread(addressData,
                           [k \in {"createdAt"} |-> ToISOString(tCreated)]))

\* What a call returns.
NoRet == [ok |-> FALSE, list |-> <<>>, count |-> 0, found |-> FALSE]

\* A call of a method: its name and arguments, where it stands (pc), its
\* local variables, and what is kept of it for the record: the file as it
\* was when the call was made (before); the saveAddress call that returned
\* as the last thing before a getAddressMetadata call was made (after);
\* whether the call ran with no other call in progress (alone); whether an
\* access of the call to a file or directory that was there has failed
\* (faulty).
NoOp ==
    [pc |-> "idle", op |-> "none", address |-> Undefined,
     metadata |-> EmptyObject, includeExpired |-> FALSE,
     ranInit |-> FALSE, readOk |-> TRUE, addresses |-> <<>>,
     writing |-> <<>>, phase |-> "none", writeOk |-> TRUE, count |-> 0,
     t |-> 0, tCreated |-> 0, before |-> [exists |-> FALSE, data |-> <<>>, torn |-> FALSE],
     after |-> [address |-> Undefined, metadata |-> EmptyObject, ok |-> FALSE],
     alone |-> TRUE, faulty |-> FALSE]

Callers == 1..MaxInFlight

Busy(c) == calls[c].pc # "idle"

\* The addresses and metadata objects the store is called with.
AddrA == Str(<<"a", "@", "example.com">>)
AddrB == Str(<<"b", "@", "example.com">>)
Addresses == {AddrA, AddrB}

\* What createEmailAddress returns to CLIInterface.createNewEmail: address is
\* undefined when the provider's answer names none.
Accounts ==
    {[k \in {"id", "address", "token", "password"} |->
        IF k = "id" THEN Lit("id2")
        ELSE IF k = "address" THEN a
        ELSE IF k = "token" THEN Lit("tok")
        ELSE Lit("Password123!")] : a \in Addresses \cup {Undefined}}

\* The metadata CLIInterface.createNewEmail passes with the account result:
\* it reads the clock for expiresAt (tExpires), moves that date on by 7
\* days, and reads the clock again for createdAt (tCreated).
CreatedMetadata(result, tExpires, tCreated, shift) ==
    [k \in {"id", "token", "password", "createdAt", "expiresAt"} |->
        IF k = "createdAt" THEN ToISOString(tCreated)
        ELSE IF k = "expiresAt" THEN ToISOString(SetDatePlus(tExpires, 7, shift))
        ELSE Get(result, k)]

PlainMetadata == [k \in {"id"} |-> Lit("id1")]

\* The metadata objects saveAddress is called with at the instant t.
Metadatas(t) ==
    { PlainMetadata, [k \in {"address"} |-> AddrB] }
    \cup {CreatedMetadata(result, t, t, ZoneShift(zone, t, 7)) :
            result \in Accounts}

\* The call goes on: it waits for its next file access.
Continue(c, call) ==
    /\ calls' = [calls EXCEPT ![c] = call]
    /\ storeOp' = NoOp
    /\ storeRet' = NoRet

\* The call returns ret.
Resolve(c, call, ret) ==
    /\ calls' = [calls EXCEPT ![c] = NoOp]
    /\ storeOp' = [call EXCEPT !.pc = "returned"]
    /\ storeRet' = ret

\* A method is called. It calls _readFromFile, which tests this.initialized
\* and starts the first file access: that of _initialize, or the read. The
\* clock is that of the caller's step.
Enter(c, op, address, metadata, includeExpired) ==
    /\ ~Busy(c)
    /\ \A j \in Callers : j < c => Busy(j)
    /\ calls' = [j \in Callers |->
          IF j = c
          THEN [NoOp EXCEPT
                  !.pc = IF initialized THEN "read" ELSE "accessDir",
                  !.op = op, !.address = address, !.metadata = metadata,
                  !.includeExpired = includeExpired,
                  !.ranInit = ~initialized, !.t = now',
                  !.before = File,
                  !.after = IF op = "get" /\ storeOp.op = "save"
                            THEN [address |-> storeOp.address,
                                  metadata |-> storeOp.metadata,
                                  ok |-> storeRet.ok]
                            ELSE NoOp.after,
                  !.alone = \A k \in Callers \ {c} : ~Busy(k)]
          ELSE IF Busy(j) THEN [calls[j] EXCEPT !.alone = FALSE]
          ELSE calls[j]]
    /\ storeOp' = NoOp
    /\ storeRet' = NoRet
    /\ UNCHANGED <<dirExists, fileExists, fileData, fileTorn, initialized>>

\* saveAddress(address, metadata)
SaveAddress(c, address, metadata) == Enter(c, "save", address, metadata, FALSE)

\* getAddressMetadata(address)
GetAddressMetadata(c, address) == Enter(c, "get", address, EmptyObject, FALSE)

\* getAddresses(includeExpired)
GetAddresses(c, includeExpired) ==
    Enter(c, "list", Undefined, EmptyObject, includeExpired)

\* removeAddress(address)
RemoveAddress(c, address) == Enter(c, "remove", address, EmptyObject, FALSE)

\* cleanupExpired()
CleanupExpired(c) == Enter(c, "cleanup", Undefined, EmptyObject, FALSE)

\* _initialize: fs.access(this.storageDir) has ended. When it threw, the
\* inner catch block calls fs.mkdir.
AccessDir(c, accessOk) ==
    /\ calls[c].pc = "accessDir"
    /\ Continue(c, [calls[c] EXCEPT
                      !.pc = IF accessOk THEN "accessFile" ELSE "mkdir",
                      !.faulty = @ \/ (dirExists /\ ~accessOk)])
    /\ UNCHANGED <<dirExists, fileExists, fileData, fileTorn, initialized, now,
                   ticks>>

\* _initialize: fs.mkdir(this.storageDir, {recursive: true}) has ended. It
\* leaves the directory there, or throws into the outer catch block.
Mkdir(c, mkdirOk) ==
    /\ calls[c].pc = "mkdir"
    /\ dirExists' = (dirExists \/ mkdirOk)
    /\ Continue(c, IF mkdirOk
                   THEN [calls[c] EXCEPT !.pc = "accessFile"]
                   ELSE [calls[c] EXCEPT !.pc = "open", !.phase = "init",
                                         !.writing = <<>>, !.faulty = TRUE])
    /\ UNCHANGED <<fileExists, fileData, fileTorn, initialized, now, ticks>>

\* _initialize: fs.access(this.storageFile) has ended. When it threw, the
\* catch block calls _writeToFile([]); otherwise this.initialized is set and
\* _readFromFile starts its read.
AccessFile(c, accessOk) ==
    /\ calls[c].pc = "accessFile"
    /\ IF accessOk
       THEN /\ initialized' = TRUE
            /\ Continue(c, [calls[c] EXCEPT !.pc = "read"])
       ELSE /\ UNCHANGED initialized
            /\ Continue(c, [calls[c] EXCEPT !.pc = "open", !.phase = "init",
                                             !.writing = <<>>,
                                             !.faulty = @ \/ fileExists])
    /\ UNCHANGED <<dirExists, fileExists, fileData, fileTorn, now, ticks>>

\* _writeToFile has resolved to ok. In _initialize, this.initialized is set
\* and the read is started; at the end of saveAddress and removeAddress ok is
\* returned, at the end of cleanupExpired the count.
AfterWrite(c, ok) ==
    LET call == [calls[c] EXCEPT !.writeOk = ok, !.faulty = @ \/ ~ok]
    IN  IF call.phase = "init"
        THEN /\ initialized' = TRUE
             /\ Continue(c, [call EXCEPT !.pc = "read", !.phase = "none",
                                         !.writeOk = TRUE])
        ELSE /\ UNCHANGED initialized
             /\ Resolve(c, call,
                       IF call.op = "cleanup"
                       THEN [NoRet EXCEPT !.count = call.count]
                       ELSE [NoRet EXCEPT !.ok = ok])

\* _writeToFile: fs.writeFile opens the file, or fails to.
OpenFile(c, openOk) ==
    /\ calls[c].pc = "open"
    /\ LET file == OpenForWrite(File, openOk)
       IN  /\ fileExists' = file.exists
           /\ fileData' = file.data
           /\ fileTorn' = file.torn
           /\ IF openOk
              THEN /\ Continue(c, [calls[c] EXCEPT !.pc = "write"])
                   /\ UNCHANGED initialized
              ELSE AfterWrite(c, FALSE)
    /\ UNCHANGED <<dirExists, now, ticks>>

\* The file holds bytes when a write of another call has landed in it since
\* this call's fs.writeFile opened it. Written over the data of another
\* write, the data of this one may be the longer (it replaces them) or the
\* shorter (the two are mixed); the text of [] is shorter than that of any
\* record.
Mixes(c, outcome) ==
    IF outcome = "written" /\ (fileData # <<>> \/ fileTorn)
    THEN IF calls[c].writing = <<>> /\ fileData # <<>> THEN {TRUE}
         ELSE BOOLEAN
    ELSE {FALSE}

\* _writeToFile: fs.writeFile writes the data and resolves or rejects.
WriteFile(c, outcome, mixed) ==
    /\ calls[c].pc = "write"
    /\ LET file == WriteToFile(File, calls[c].writing, outcome, mixed)
       IN  /\ fileExists' = file.exists
           /\ fileData' = file.data
           /\ fileTorn' = file.torn
           /\ AfterWrite(c, outcome = "written")
    /\ UNCHANGED <<dirExists, now, ticks>>

NothingRemovedNever(filteredAddresses, addresses) == FALSE

\* removeAddress: filteredAddresses.length === addresses.length
NothingRemoved(filteredAddresses, addresses) ==
    Len(filteredAddresses) = Len(addresses)

\* saveAddress, after its read: the record is built from three clock reads,
\* the second d1 and the third d2 after the one before, and _writeToFile is
\* called.
SaveRead(c, call, d1, d2) ==
        LET isNew == FindIndex(call.addresses, call.address) = 0
            shift == ZoneShift(zone, now, expirationDays)
            tExpires == now
            tUpdated == now + d1
            tCreated == IF isNew THEN tUpdated + d2 ELSE tUpdated
            list == SaveResult(call.addresses, call.address, call.metadata,
                               tExpires, tUpdated, tCreated, shift)
            advances == (IF d1 > 0 THEN 1 ELSE 0)
                        + (IF tCreated > tUpdated THEN 1 ELSE 0)
        IN  /\ Len(list) <= MaxRecords
            /\ ticks + advances <= MaxTicks
            /\ now' = tCreated
            /\ ticks' = ticks + advances
            /\ Continue(c, [call EXCEPT !.pc = "open", !.phase = "final",
                                        !.writing = list, !.t = tUpdated,
                                        !.tCreated = tCreated])

\* getAddressMetadata, after its read.
GetRead(c, call) ==
    LET i == FindIndex(call.addresses, call.address)
    IN  /\ Resolve(c, call,
                  [NoRet EXCEPT !.found = (i # 0),
                      !.list = IF i # 0 THEN <<call.addresses[i]>> ELSE <<>>])
        /\ UNCHANGED <<now, ticks>>

\* getAddresses, after its read.
ListRead(c, call) ==
    /\ Resolve(c, call,
              [NoRet EXCEPT !.ok = TRUE, !.list =
                  IF call.includeExpired THEN call.addresses
                  ELSE FilterSeq(call.addresses, now, 1)])
    /\ UNCHANGED <<now, ticks>>

\* removeAddress, after its read.
RemoveRead(c, call) ==
    LET filteredAddresses == WithoutAddress(call.addresses, call.address, 1)
    IN  /\ IF NothingRemoved(filteredAddresses, call.addresses)
           THEN Resolve(c, call, [NoRet EXCEPT !.ok = FALSE])
           ELSE Continue(c, [call EXCEPT !.pc = "open", !.phase = "final",
                                         !.writing = filteredAddresses])
        /\ UNCHANGED <<now, ticks>>

\* cleanupExpired, after its read.
CleanupRead(c, call) ==
    LET validAddresses == FilterSeq(call.addresses, now, 1)
        removedCount == Len(call.addresses) - Len(validAddresses)
    IN  /\ IF removedCount > 0
           THEN Continue(c, [call EXCEPT !.pc = "open", !.phase = "final",
                                         !.writing = validAddresses,
                                         !.count = removedCount])
           ELSE Resolve(c, call, [NoRet EXCEPT !.count = removedCount])
        /\ UNCHANGED <<now, ticks>>

\* _readFromFile: fs.readFile has ended (readOk: it resolved), the content is
\* parsed, and the method goes on to its next await or to its end.
ReadFile(c, readOk, d1, d2) ==
    /\ calls[c].pc = "read"
    /\ LET call == [calls[c] EXCEPT
                      !.readOk = readOk /\ fileExists /\ ~fileTorn,
                      !.faulty = @ \/ ~(readOk /\ fileExists /\ ~fileTorn),
                      !.addresses = ReadFromFile(File, readOk),
                      !.t = now]
       IN  CASE call.op = "save" -> SaveRead(c, call, d1, d2)
             [] call.op = "get" -> GetRead(c, call)
             [] call.op = "list" -> ListRead(c, call)
             [] call.op = "remove" -> RemoveRead(c, call)
             [] call.op = "cleanup" -> CleanupRead(c, call)
    /\ UNCHANGED <<dirExists, fileExists, fileData, fileTorn, initialized>>

\* Time passes.
Tick ==
    \E d \in {ExpirationMs, 2 * ExpirationMs} :
        /\ ticks < MaxTicks
        /\ now <= 2 * ExpirationMs + MaxTicks - d
        /\ now' = now + d
        /\ ticks' = ticks + 1
        /\ storeOp' = NoOp
        /\ storeRet' = NoRet
        /\ UNCHANGED <<dirExists, fileExists, fileData, fileTorn, initialized,
                       calls>>

\* A StorageService just constructed: the directory of its backing file is
\* absent (hasDir false), or it is there and the file is absent or holds [].
StoreConstructed(hasDir, exists) ==
    /\ dirExists = hasDir
    /\ fileExists = (hasDir /\ exists)
    /\ fileData = <<>>
    /\ fileTorn = FALSE
    /\ initialized = FALSE
    /\ now = 0
    /\ ticks = 0
    /\ calls = [c \in Callers |-> NoOp]
    /\ storeOp = NoOp
    /\ storeRet = NoRet

\* The process has ended with no call in progress; new StorageService() in
\* the next one, over the file the previous instance left.
NewStorageService ==
    /\ initialized
    /\ \A c \in Callers : ~Busy(c)
    /\ initialized' = FALSE
    /\ storeOp' = NoOp
    /\ storeRet' = NoRet
    /\ UNCHANGED <<dirExists, fileExists, fileData, fileTorn, now, ticks, calls>>

\* The runs that are held to MaxDetours detours: all but those of a user
\* that makes its calls one at a time and leaves the header methods alone,
\* in a zone that keeps its offset.
Bounded == callers > 1 \/ direct \/ zone # NoZoneChange

\* The outcomes explored: all of them, until a bounded run has made its
\* detours; from then on the one that is no failure, when there is one.
Explored(outcomes, good) ==
    IF Bounded /\ detours >= MaxDetours /\ good \in outcomes
    THEN {good}
    ELSE outcomes

\* The step counts as a detour of a bounded run when off.
Detour(off) ==
    detours' = IF Bounded /\ off THEN detours + 1 ELSE detours

\* What is there can be accessed, opened or read, or fail to be; what is
\* not there fails.
Possible(there) == IF there THEN BOOLEAN ELSE {FALSE}

\* A step of the call c: one of its file accesses ends. Only saveAddress
\* reads the clock more than once after its read: between two reads the
\* clock stands (d1, d2 = 0) or goes on by a millisecond.
StoreStep(c) ==
    \/ \E accessOk \in Explored(Possible(dirExists), TRUE) :
          AccessDir(c, accessOk) /\ Detour(dirExists /\ ~accessOk)
    \/ \E mkdirOk \in Explored(BOOLEAN, TRUE) :
          Mkdir(c, mkdirOk) /\ Detour(~mkdirOk)
    \/ \E accessOk \in Explored(Possible(fileExists), TRUE) :
          AccessFile(c, accessOk) /\ Detour(fileExists /\ ~accessOk)
    \/ \E openOk \in Explored(Possible(dirExists), TRUE) :
          OpenFile(c, openOk) /\ Detour(dirExists /\ ~openOk)
    \/ \E outcome \in Explored({"written", "nothing", "short"}, "written") :
          \E mixed \in Mixes(c, outcome) :
             WriteFile(c, outcome, mixed) /\ Detour(outcome # "written")
    \/ \E readOk \in Explored(Possible(fileExists), TRUE) :
          \E d1, d2 \in Explored(IF calls[c].op = "save" THEN {0, 1} ELSE {0},
                                  0) :
             /\ ReadFile(c, readOk, d1, d2)
             /\ Detour((fileExists /\ ~readOk) \/ d1 + d2 > 0)

\* The user of the class: it keeps up to callers calls in progress, and
\* when more than one, makes most calls in all.
MayCall(c, most) ==
    /\ c <= callers
    /\ callers > 1 => made < most
    /\ made' = IF callers > 1 THEN made + 1 ELSE made
    /\ UNCHANGED <<userVars, rejections>>

NextStore ==
    \/ \E c \in Callers, a \in Addresses,
          m \in Explored(Metadatas(now), PlainMetadata) :
          MayCall(c, MaxOverlapStoreCalls) /\ UNCHANGED <<now, ticks>>
             /\ SaveAddress(c, a, m)
             /\ Detour(m # PlainMetadata)
             /\ UNCHANGED <<clientVars, appVars, genVars>>
    \/ \E c \in Callers, a \in Addresses :
          MayCall(c, MaxOverlapStoreCalls) /\ UNCHANGED <<now, ticks>>
             /\ GetAddressMetadata(c, a)
             /\ UNCHANGED <<clientVars, appVars, genVars, detours>>
    \/ \E c \in Callers, inc \in BOOLEAN :
          MayCall(c, MaxOverlapStoreCalls) /\ UNCHANGED <<now, ticks>>
             /\ GetAddresses(c, inc)
             /\ UNCHANGED <<clientVars, appVars, genVars, detours>>
    \/ \E c \in Callers, a \in Addresses :
          MayCall(c, MaxOverlapStoreCalls) /\ UNCHANGED <<now, ticks>>
             /\ RemoveAddress(c, a)
             /\ UNCHANGED <<clientVars, appVars, genVars, detours>>
    \/ \E c \in Callers :
          MayCall(c, MaxOverlapStoreCalls) /\ UNCHANGED <<now, ticks>>
             /\ CleanupExpired(c)
             /\ UNCHANGED <<clientVars, appVars, genVars, detours>>
    \/ \E c \in Callers :
          StoreStep(c)
             /\ UNCHANGED <<clientVars, appVars, genVars, userVars, made,
                            rejections>>
    \/ Tick /\ UNCHANGED <<clientVars, appVars, genVars, envVars>>
    \/ NewStorageService /\ UNCHANGED <<clientVars, appVars, genVars, envVars>>
(***************************************************************************)
(* EmailService                                                            *)
(***************************************************************************)
DefaultMaxRetries == 3
DefaultRetryDelay == 1000
CreateMaxRetries == 5
CreateRetryDelay == 3000
PacingDelay == 1000
RateLimitStatus == 429

\* Bounds: the configurations the service is constructed with.
MaxConfigRetries == 4

Digits == <<"0", "1", "2", "3", "4", "5", "6", "7", "8", "9">>

\* `${n}` of a non-negative integer: its decimal digits.
RECURSIVE NumberPieces(_)
NumberPieces(n) ==
    IF n < 10 THEN <<Digits[n + 1]>>
    ELSE NumberPieces(n \div 10) \o <<Digits[(n % 10) + 1]>>

\* `${v}` of a value inside a template literal.
TemplatePieces(v) ==
    IF v.t = "string" THEN v.s
    ELSE IF v.t = "undefined" THEN <<"undefined">>
    ELSE NumberPieces(v.n)

\* !v
Falsy(v) == v.t = "undefined" \/ (v.t = "string" /\ v.s = <<>>)

\* An Error object: its message, and response.status (0: it has no response).
NewError(pieces) == [message |-> Str(pieces), status |-> 0]
NoError == [message |-> Str(<<>>), status |-> 0]

\* The error axios rejects with for a response of status s.
HttpError(s) ==
    [message |-> Str(<<"Request failed with status code ">> \o NumberPieces(s)),
     status |-> s]

\* The error axios rejects with when no response arrives.
NetworkError == NewError(<<"Network Error">>)

\* Math.pow(2, e)
RECURSIVE Pow2(_)
Pow2(e) == IF e <= 0 THEN 1 ELSE 2 * Pow2(e - 1)

\* a || b for numbers: b when a is 0 or absent.
OrElse(a, b) == IF a # 0 THEN a ELSE b

RetryDelayFlat(error, attempt, retryDelay) == retryDelay

\* withRetry: the wait after a failed attempt that was not the last.
RetryDelayFor(error, attempt, retryDelay) ==
    IF error.status = RateLimitStatus
    THEN retryDelay * Pow2(attempt - 1)
    ELSE retryDelay

IsLastAttemptOffByOne(attempt, maxRetries) == attempt = maxRetries + 1

\* withRetry: attempt === maxRetries
IsLastAttempt(attempt, maxRetries) == attempt = maxRetries

\* withRetry: the error thrown once the last attempt has failed.
AggregatedError(maxRetries, error) ==
    NewError(<<"Operation failed after ">> \o NumberPieces(maxRetries)
             \o <<" attempts: ">> \o error.message.s)

NoRetry ==
    [status |-> "unused", max |-> 0, delay |-> 0, attempt |-> 0, calls |-> 0,
     fails |-> <<>>, waits |-> <<>>, paced |-> 0, lastError |-> NoError,
     lastOk |-> FALSE, error |-> NoError]

WithRetryIgnoringOptions(optMaxRetries, optRetryDelay) ==
    [NoRetry EXCEPT !.status = "running", !.max = thisMaxRetries,
                    !.delay = thisRetryDelay, !.attempt = 1]

\* withRetry(apiCall, options) entered: the budget is taken from the options
\* or from the service, and the loop starts with attempt 1.
WithRetry(optMaxRetries, optRetryDelay) ==
    LET maxRetries == OrElse(optMaxRetries, thisMaxRetries)
        retryDelay == OrElse(optRetryDelay, thisRetryDelay)
    IN  [NoRetry EXCEPT !.status = "running", !.max = maxRetries,
                        !.delay = retryDelay, !.attempt = 1]

\* withRetry: apiCall resolved; its value is returned.
OnResolve(r) == [r EXCEPT !.status = "returned", !.lastOk = TRUE]

\* withRetry: apiCall rejected with error; the catch block rethrows, or sets
\* the timer of the wait before the next attempt.
OnReject(r, error) ==
    LET r1 == [r EXCEPT !.lastError = error, !.lastOk = FALSE,
                        !.fails = Append(@, error.status)]
    IN  IF IsLastAttempt(r.attempt, r.max)
        THEN [r1 EXCEPT !.status = "threw",
                        !.error = AggregatedError(r.max, error)]
        ELSE [r1 EXCEPT
                !.waits = Append(@, RetryDelayFor(error, r.attempt, r.delay))]

\* The provider's answers: a response with a body, or a failure. The statuses
\* stand for the rate-limit signal and for any other error status.
ErrorReplies ==
    {[ok |-> FALSE, status |-> s, isNull |-> TRUE, data |-> EmptyObject] :
        s \in {0, 429, 500}}

OkReply(data) == [ok |-> TRUE, status |-> 200, isNull |-> FALSE, data |-> data]
NullReply == [ok |-> TRUE, status |-> 200, isNull |-> TRUE, data |-> EmptyObject]

\* The error a failed request rejects with.
ReplyError(reply) ==
    IF reply.status = 0 THEN NetworkError ELSE HttpError(reply.status)

TheDomain == Lit("example.com")
AccountId == Lit("abc")
Token == Lit("tok")

\* The provider's answers to each request: the one the API documents
\* (DomainsReply, AccountReply, ...), answers with less in the body, and the
\* failures.
\* GET /domains: the body is a list of domain objects.
DomainsReply ==
    OkReply(<<[k \in {"domain"} |-> TheDomain],
              [k \in {"domain"} |-> Lit("other.org")]>>)

DomainsReplies ==
    {OkReply(<<>>), OkReply(<<EmptyObject>>), DomainsReply} \cup ErrorReplies

\* POST /accounts for the address sent.
AccountReply(address) ==
    OkReply([k \in {"id", "address"} |->
                IF k = "id" THEN AccountId ELSE address])

AccountReplies(address) ==
    { NullReply,
      OkReply(EmptyObject),
      OkReply([k \in {"id"} |-> AccountId]),
      AccountReply(address) }
    \cup ErrorReplies

\* POST /token
TokenReply == OkReply([k \in {"token"} |-> Token])

TokenReplies == {NullReply, OkReply(EmptyObject), TokenReply} \cup ErrorReplies

\* GET /messages: the body wraps the list of messages in 'hydra:member'; a
\* message names its sender in from.address.
MessagesReply ==
    OkReply([k \in {"hydra:member"} |->
        <<[k2 \in {"id", "from"} |->
              IF k2 = "id" THEN Lit("m1")
              ELSE [k3 \in {"address"} |-> Lit("sender@example.org")]]>>])

MessagesReplies ==
    { NullReply,
      OkReply(EmptyObject),
      OkReply([k \in {"hydra:member"} |-> <<>>]),
      OkReply([k \in {"hydra:member"} |-> <<[k2 \in {"id"} |-> Lit("m1")]>>]),
      MessagesReply }
    \cup ErrorReplies

\* GET /messages/{id}
MessageReply == OkReply([k \in {"id", "text"} |-> Lit("m1")])

MessageReplies == {NullReply, MessageReply} \cup ErrorReplies

\* String.fromCharCode(code) for the codes from 97 on: the codes past 122 are
\* no letters.
FromCharCode(code) ==
    LET alphabet ==
           <<"a", "b", "c", "d", "e", "f", "g", "h", "i", "j", "k", "l", "m",
             "n", "o", "p", "q", "r", "s", "t", "u", "v", "w", "x", "y", "z">>
    IN  IF code - 96 \in 1..26 THEN alphabet[code - 96] ELSE "{"

\* The username createEmailAddress generates from its random draws: lengthDraw
\* is Math.floor(Math.random() * 5), letterDraw[i] is Math.floor(Math.random() * 26).
GenerateUsername(lengthDraw, letterDraw) ==
    [i \in 1..(lengthDraw + 12) |-> FromCharCode(97 + letterDraw[i])]

\* Bound: Math.random() returns u / RandomUnits for some u in 0..RandomUnits - 1.
\* RandomUnits is a power of two, so that u / RandomUnits and its products
\* with 5 and 26 are doubles without rounding.
RandomUnits == 32

RoundTimes(u, n) == (2 * u * n + RandomUnits) \div (2 * RandomUnits)

\* Math.floor(Math.random() * n), Math.random() being u / RandomUnits.
FloorTimes(u, n) == (u * n) \div RandomUnits

\* The draws of one username: Math.random() returns draw.u / RandomUnits for
\* the length, then the values from draw.first on, one after the other, for
\* the letters.
Username(draw) ==
    LET draws == [i \in 1..20 |-> (draw.first + (i - 1)) % RandomUnits]
    IN  GenerateUsername(FloorTimes(draw.u, 5),
                         [i \in 1..20 |-> FloorTimes(draws[i], 26)])

\* createEmailAddress: the username is generated.
GenerateLocalPart ==
    \E u, first \in 0..(RandomUnits - 1) :
        LET generated == Username([u |-> u, first |-> first])
        IN  /\ username' = generated
            /\ lengths' = lengths \cup {Len(generated)}

\* The draws the client is followed with: the shortest and the longest
\* username.
ShortestDraw == [u |-> 0, first |-> 0]

UsernameDraws ==
    { ShortestDraw,
      [u |-> RandomUnits - 1, first |-> RandomUnits - 1] }

\* `${username}@${domain}`
ComposeAddress(user, domain) == Str(user \o <<"@">> \o TemplatePieces(domain))

\* `Bearer ${token}`
Bearer(token) == Str(<<"Bearer ">> \o TemplatePieces(token))

\* The messages of the errors createEmailAddress throws.
InvalidAddressFormat ==
    <<"Invalid email address format or domain. Please try again with a different address format.">>
RateLimited ==
    <<"Rate limit exceeded. The service is temporarily unavailable. Please try again after a few minutes.">>
BadRequest ==
    <<"Bad request: Email provider rejected the request. Check your input parameters.">>
Forbidden ==
    <<"Access forbidden: Your IP might be blocked by the email provider.">>
ProviderServerError ==
    <<"Email provider server error. Please try again later.">>

\* createEmailAddress: the error its catch block throws for a caught error.
CreateErrorFor(error) ==
    IF error.status = 422 THEN NewError(InvalidAddressFormat)
    ELSE IF error.status = 429 THEN NewError(RateLimited)
    ELSE IF error.status = 400 THEN NewError(BadRequest)
    ELSE IF error.status = 403 THEN NewError(Forbidden)
    ELSE IF error.status = 500 THEN NewError(ProviderServerError)
    ELSE NewError(<<"Failed to create email address: ">> \o error.message.s
                  \o <<". Please check your internet connection and try again.">>)

\* getAvailableDomain: the error its catch block throws.
DomainErrorFor(error) ==
    NewError(<<"Unable to retrieve available email domains: ">> \o error.message.s)

\* The TypeError of reading .token of a null body.
NullTokenError ==
    NewError(<<"Cannot read properties of null (reading 'token')">>)

NoArgs ==
    [address |-> Undefined, password |-> Undefined, id |-> Undefined,
     token |-> Undefined]

NoReq == [method |-> "none", path |-> "", auth |-> Undefined, status |-> 0, nth |-> 0]

\* A call of a method: its name (cOp) and arguments; where it stands: the
\* request it is at (pc, "idle" once it has ended) and what it awaits there
\* (wait): the answer to the request ("answer"), the timer of the wait after
\* a failed attempt ("retry"), a pacing timer ("pace"), or the function its
\* caller passed to withRetry ("apiCall"); its local variables; its withRetry
\* invocation; the default Authorization header the request it awaits the
\* answer of went out with (sentAuth); the last request it got an answer to
\* (lastReq); how it ended; whether it ran with no other call in progress
\* (alone).
NoCall ==
    [cOp |-> "none", cArgs |-> NoArgs, pc |-> "idle", wait |-> "none",
     cLocal |-> [domain |-> Undefined, address |-> Undefined,
                 accountData |-> EmptyObject],
     retry |-> NoRetry, sentAuth |-> Undefined, lastReq |-> NoReq,
     cResult |-> [status |-> "none", value |-> EmptyObject, error |-> NoError],
     alone |-> TRUE]

Idle(c) == clientCalls[c].pc = "idle"

\* this.client.get / post / delete is called: axios merges the default
\* headers of this moment into the request, and the call awaits the answer.
Send(call) == [call EXCEPT !.wait = "answer", !.sentAuth = authHeader]

\* The request as sent, with the status of its answer (0: no response): a
\* header of the request wins over the client's default. nth counts how many
\* times in a row the call has sent this request.
Request(call, method, path, ownAuth, reply) ==
    [method |-> method, path |-> path,
     auth |-> IF ownAuth # Undefined THEN ownAuth ELSE call.sentAuth,
     status |-> reply.status,
     nth |-> IF call.lastReq.method = method /\ call.lastReq.path = path
             THEN call.lastReq.nth + 1 ELSE 1]

\* The call ends with an error.
Fail(call, error) ==
    [call EXCEPT !.pc = "idle", !.wait = "none",
                 !.cResult = [status |-> "error", value |-> EmptyObject,
                              error |-> error]]

\* The call ends with a value.
Succeed(call, value) ==
    [call EXCEPT !.pc = "idle", !.wait = "none",
                 !.cResult = [status |-> "ok", value |-> value,
                              error |-> NoError]]

\* withRetry: the loop has ended with no attempt left to make, and undefined
\* is returned: createEmailAddress throws for want of a domain; the other
\* methods return it.
LoopExit(call) ==
    LET ended == [call EXCEPT !.retry = [@ EXCEPT !.status = "returned"]]
    IN  IF call.cOp = "createEmailAddress" /\ call.pc = "domains"
        THEN Fail(ended, CreateErrorFor(
                NewError(<<"Failed to retrieve a valid email domain">>)))
        ELSE Succeed(ended, Undefined)

\* withRetry: the loop tests attempt <= maxRetries and invokes apiCall, which
\* runs up to its first await: the creation call of createEmailAddress sets
\* its first pacing timer, the function passed by a caller of withRetry is
\* pending, and the other ones send their request.
Attempt(call) ==
    IF call.retry.attempt <= call.retry.max
    THEN LET invoked == [call EXCEPT !.retry = [@ EXCEPT !.calls = @ + 1]]
         IN  IF call.pc = "accounts" THEN [invoked EXCEPT !.wait = "pace"]
             ELSE IF call.pc = "apiCall" THEN [invoked EXCEPT !.wait = "apiCall"]
             ELSE Send(invoked)
    ELSE LoopExit(call)

\* The error the catch block of deleteEmail or deleteAccount throws.
DeleteErrorFor(op, error) ==
    IF op = "deleteEmail"
    THEN NewError(<<"Failed to delete email: ">> \o error.message.s)
    ELSE NewError(<<"Failed to delete account: ">> \o error.message.s)

\* apiCall rejected with error. When withRetry rethrows, the catch block of
\* the method throws its own error; otherwise the call waits for the timer
\* of withRetry, after which the whole of apiCall is invoked again.
Reject(call, error) ==
    LET r1 == OnReject(call.retry, error)
        failed == [call EXCEPT !.retry = r1]
    IN  IF r1.status # "threw"
        THEN [failed EXCEPT !.wait = "retry",
                            !.pc = IF @ = "token" THEN "accounts" ELSE @]
        ELSE Fail(failed,
                CASE call.cOp = "createEmailAddress" ->
                        CreateErrorFor(IF call.pc = "domains"
                                       THEN DomainErrorFor(r1.error)
                                       ELSE r1.error)
                  [] call.cOp = "getAvailableDomain" -> DomainErrorFor(r1.error)
                  [] call.cOp = "getAuthToken" ->
                        NewError(<<"Authentication failed: ">>
                                 \o r1.error.message.s)
                  [] call.cOp = "withRetry" -> r1.error
                  [] OTHER -> DeleteErrorFor(call.cOp, r1.error))

\* A method is called: it runs in an activation of its own (c), next to the
\* calls in progress, and up to its first await.
Begin(c, call) ==
    /\ Idle(c)
    /\ \A j \in Callers : j < c => ~Idle(j)
    /\ clientCalls' = [j \in Callers |->
          IF j = c
          THEN [call EXCEPT !.alone = \A k \in Callers \ {c} : Idle(k)]
          ELSE IF ~Idle(j) THEN [clientCalls[j] EXCEPT !.alone = FALSE]
          ELSE clientCalls[j]]
    /\ UNCHANGED <<thisMaxRetries, thisRetryDelay, authHeader>>

\* The call has got the answer request was sent for, and goes on as next.
Answered(c, request, next) ==
    clientCalls' = [clientCalls EXCEPT ![c] =
        [next EXCEPT !.lastReq = request,
                     !.sentAuth = IF next.wait = "answer" THEN @ ELSE Undefined]]

\* withRetry: the timer of the wait after a failed attempt fires
\* (setTimeout(resolve, delay)): the loop goes on with the next attempt.
RetryWaitEnds(c) ==
    LET call == clientCalls[c]
    IN  /\ call.wait = "retry"
        /\ clientCalls' = [clientCalls EXCEPT ![c] =
              Attempt([call EXCEPT !.retry = [@ EXCEPT !.attempt = @ + 1]])]
        /\ UNCHANGED <<thisMaxRetries, thisRetryDelay, authHeader>>

\* createEmailAddress: a pacing timer fires (setTimeout(resolve, 1000)), and
\* the request the attempt is at is sent: POST /accounts, or POST /token.
PacingEnds(c) ==
    LET call == clientCalls[c]
    IN  /\ call.wait = "pace"
        /\ clientCalls' = [clientCalls EXCEPT ![c] =
              Send([call EXCEPT
                      !.retry = [@ EXCEPT !.paced = @ + PacingDelay]])]
        /\ UNCHANGED <<thisMaxRetries, thisRetryDelay, authHeader>>

\* withRetry(apiCall, options), called by the user of the class with a
\* function of its own.
CallWithRetry(c, optMaxRetries, optRetryDelay) ==
    Begin(c, Attempt([NoCall EXCEPT
                        !.cOp = "withRetry",
                        !.pc = "apiCall",
                        !.retry = WithRetry(optMaxRetries, optRetryDelay)]))

\* withRetry: the function the caller passed resolves, or rejects with the
\* error of a request answered by reply.
ApiCallSettles(c, reply) ==
    LET call == clientCalls[c]
    IN  /\ call.wait = "apiCall"
        /\ clientCalls' = [clientCalls EXCEPT ![c] =
              IF reply.ok
              THEN Succeed([call EXCEPT !.retry = OnResolve(@)],
                           [k \in {"value"} |-> TRUE])
              ELSE Reject(call, ReplyError(reply))]
        /\ UNCHANGED <<thisMaxRetries, thisRetryDelay, authHeader>>

\* getAvailableDomain(), called by the user of the class: withRetry is
\* entered and GET /domains sent.
CallGetAvailableDomain(c) ==
    Begin(c, Attempt([NoCall EXCEPT
                        !.cOp = "getAvailableDomain",
                        !.pc = "domains",
                        !.retry = WithRetry(0, 0)]))

\* createEmailAddress(password): getAvailableDomain enters withRetry and
\* sends GET /domains.
CallCreateEmailAddress(c, password) ==
    Begin(c, Attempt([NoCall EXCEPT
                        !.cOp = "createEmailAddress",
                        !.cArgs = [NoArgs EXCEPT !.password =
                            IF password = Undefined THEN Lit("Password123!")
                            ELSE password],
                        !.pc = "domains",
                        !.retry = WithRetry(0, 0)]))

\* getAvailableDomain: GET /domains is answered by reply. With a domain,
\* getAvailableDomain returns it, and createEmailAddress generates the
\* username (from draw), enters withRetry for the creation call and invokes
\* it, up to its pacing timer.
RequestDomains(c, reply, draw) ==
    LET call == clientCalls[c]
        usable == /\ reply.ok
                  /\ Len(reply.data) > 0
                  /\ ~Falsy(Get(reply.data[1], "domain"))
        error == IF reply.ok
                 THEN NewError(<<"No valid domains found in the response">>)
                 ELSE ReplyError(reply)
        domain == Get(reply.data[1], "domain")
    IN  /\ call.pc = "domains"
        /\ call.wait = "answer"
        /\ Answered(c, Request(call, "GET", "/domains", Undefined, reply),
                IF ~usable THEN Reject(call, error)
                ELSE IF call.cOp = "getAvailableDomain"
                THEN Succeed([call EXCEPT !.retry = OnResolve(@)],
                             [k \in {"value"} |-> domain])
                ELSE Attempt([call EXCEPT
                        !.cLocal = [call.cLocal EXCEPT
                            !.domain = domain,
                            !.address = ComposeAddress(Username(draw), domain)],
                        !.retry = WithRetry(CreateMaxRetries, CreateRetryDelay),
                        !.pc = "accounts"]))
        /\ IF usable /\ call.cOp = "createEmailAddress"
           THEN /\ username' = Username(draw)
                /\ lengths' = lengths \cup {Len(Username(draw))}
           ELSE UNCHANGED <<username, lengths>>
        /\ UNCHANGED <<thisMaxRetries, thisRetryDelay, authHeader>>

\* createEmailAddress: POST /accounts is answered by reply; with an account,
\* the second pacing timer is set.
RequestAccount(c, reply) ==
    LET call == clientCalls[c]
        valid == reply.ok /\ ~reply.isNull /\ ~Falsy(Get(reply.data, "id"))
        error == IF reply.ok
                 THEN NewError(<<"Invalid account creation response">>)
                 ELSE ReplyError(reply)
    IN  /\ call.pc = "accounts"
        /\ call.wait = "answer"
        /\ Answered(c, Request(call, "POST", "/accounts", Undefined, reply),
                IF valid
                THEN [call EXCEPT
                        !.cLocal = [call.cLocal EXCEPT !.accountData = reply.data],
                        !.pc = "token",
                        !.wait = "pace"]
                ELSE Reject(call, error))
        /\ UNCHANGED <<thisMaxRetries, thisRetryDelay, authHeader>>

\* createEmailAddress: POST /token is answered by reply; with a token, the
\* account is returned.
RequestToken(c, reply) ==
    LET call == clientCalls[c]
        valid == reply.ok /\ ~reply.isNull /\ ~Falsy(Get(reply.data, "token"))
        error == IF reply.ok THEN NewError(<<"Invalid token response">>)
                 ELSE ReplyError(reply)
    IN  /\ call.pc = "token"
        /\ call.wait = "answer"
        /\ Answered(c, Request(call, "POST", "/token", Undefined, reply),
                IF valid
                THEN Succeed([call EXCEPT !.retry = OnResolve(@)],
                        [k \in {"id", "address", "token", "password"} |->
                            IF k = "id" THEN Get(call.cLocal.accountData, "id")
                            ELSE IF k = "address"
                                 THEN Get(call.cLocal.accountData, "address")
                            ELSE IF k = "token" THEN Get(reply.data, "token")
                            ELSE call.cArgs.password])
                ELSE Reject(call, error))
        /\ UNCHANGED <<thisMaxRetries, thisRetryDelay, authHeader>>

\* getEmails(address, password): POST /token is sent.
CallGetEmails(c, address, password) ==
    Begin(c, Send([NoCall EXCEPT
                     !.cOp = "getEmails",
                     !.cArgs = [NoArgs EXCEPT !.address = address,
                                              !.password = password],
                     !.pc = "auth"]))

\* getEmailContent(messageId, address, password): POST /token is sent.
CallGetEmailContent(c, messageId, address, password) ==
    Begin(c, Send([NoCall EXCEPT
                     !.cOp = "getEmailContent",
                     !.cArgs = [NoArgs EXCEPT !.id = messageId,
                                              !.address = address,
                                              !.password = password],
                     !.pc = "auth"]))

\* The error the catch block of getEmails or getEmailContent throws.
FetchErrorFor(op, error) ==
    IF op = "getEmails"
    THEN NewError(<<"Failed to fetch emails: ">> \o error.message.s)
    ELSE NewError(<<"Failed to fetch email content: ">> \o error.message.s)

KeepAuthToken == authHeader' = authHeader

\* clearAuthToken(): the default header is deleted.
ClearAuthToken == authHeader' = Undefined

\* setAuthToken(token): the default header is set.
SetAuthToken(token) == authHeader' = Bearer(token)

\* getEmails: one message of the list, as returned.
MessageSummary(msg) ==
    [k \in {"id", "from", "to", "subject", "intro", "hasAttachments",
            "receivedDate"} |->
        IF k = "receivedDate" THEN Get(msg, "createdAt") ELSE Get(msg, k)]

\* getEmailContent: the message, as returned.
MessageContent(data) ==
    [k \in {"id", "from", "to", "subject", "text", "html", "attachments",
            "receivedDate"} |->
        IF k = "receivedDate" THEN Get(data, "createdAt") ELSE Get(data, k)]

\* getEmails, getEmailContent: POST /token is answered by reply; then
\* setAuthToken, and the GET is sent at once, under the header just set.
RequestAuth(c, reply) ==
    LET call == clientCalls[c]
        request == Request(call, "POST", "/token", Undefined, reply)
    IN  /\ call.pc = "auth"
        /\ call.wait = "answer"
        /\ IF ~reply.ok
           THEN /\ ClearAuthToken
                /\ Answered(c, request,
                        Fail(call, FetchErrorFor(call.cOp, ReplyError(reply))))
           ELSE IF reply.isNull
           THEN /\ ClearAuthToken
                /\ Answered(c, request,
                        Fail(call, FetchErrorFor(call.cOp, NullTokenError)))
           ELSE /\ SetAuthToken(Get(reply.data, "token"))
                /\ Answered(c, request,
                      [call EXCEPT
                         !.pc = IF call.cOp = "getEmails" THEN "messages"
                                ELSE "message",
                         !.sentAuth = Bearer(Get(reply.data, "token"))])
        /\ UNCHANGED <<thisMaxRetries, thisRetryDelay>>

\* getEmails: GET /messages?page=1&limit=20 is answered by reply.
RequestMessages(c, reply) ==
    LET call == clientCalls[c]
    IN  /\ call.pc = "messages"
        /\ call.wait = "answer"
        /\ ClearAuthToken
        /\ Answered(c, Request(call, "GET", "/messages", Undefined, reply),
                IF ~reply.ok
                THEN Fail(call, FetchErrorFor(call.cOp, ReplyError(reply)))
                ELSE IF ~reply.isNull /\ "hydra:member" \in DOMAIN reply.data
                THEN Succeed(call, [k \in {"list"} |->
                        [i \in 1..Len(reply.data["hydra:member"]) |->
                            MessageSummary(reply.data["hydra:member"][i])]])
                ELSE Succeed(call, [k \in {"list"} |-> <<>>]))
        /\ UNCHANGED <<thisMaxRetries, thisRetryDelay>>

\* getEmailContent: GET /messages/{id} is answered by reply.
RequestMessage(c, reply) ==
    LET call == clientCalls[c]
    IN  /\ call.pc = "message"
        /\ call.wait = "answer"
        /\ ClearAuthToken
        /\ Answered(c, Request(call, "GET", "/messages/{id}", Undefined, reply),
                IF ~reply.ok
                THEN Fail(call, FetchErrorFor(call.cOp, ReplyError(reply)))
                ELSE IF reply.isNull
                THEN Fail(call, FetchErrorFor(call.cOp,
                             NewError(<<"Invalid response from server">>)))
                ELSE Succeed(call, MessageContent(reply.data)))
        /\ UNCHANGED <<thisMaxRetries, thisRetryDelay>>

\* deleteEmail(emailId, token), deleteAccount(accountId, token): with both
\* arguments, withRetry is entered and the DELETE sent.
CallDelete(c, op, id, token) ==
    LET call == [NoCall EXCEPT !.cOp = op,
                               !.cArgs = [NoArgs EXCEPT !.id = id,
                                                        !.token = token]]
    IN  Begin(c, IF Falsy(id) \/ Falsy(token)
                 THEN Fail(call, DeleteErrorFor(op,
                        IF op = "deleteEmail"
                        THEN NewError(<<"Email ID and token are required">>)
                        ELSE NewError(<<"Account ID and token are required">>)))
                 ELSE Attempt([call EXCEPT !.retry = WithRetry(0, 0),
                                           !.pc = "delete"]))

DeleteHeadersNone(token) == Undefined

\* deleteEmail, deleteAccount: the Authorization header of the request itself.
DeleteHeaders(token) == Bearer(token)

\* deleteEmail, deleteAccount: the DELETE, sent with the caller's token, is
\* answered by reply.
RequestDelete(c, reply) ==
    LET call == clientCalls[c]
    IN  /\ call.pc = "delete"
        /\ call.wait = "answer"
        /\ Answered(c, Request(call, "DELETE",
                               IF call.cOp = "deleteEmail" THEN "/messages/{id}"
                               ELSE "/accounts/{id}",
                               DeleteHeaders(call.cArgs.token), reply),
                IF reply.ok
                THEN Succeed([call EXCEPT !.retry = OnResolve(@)],
                             [k \in {"value"} |-> TRUE])
                ELSE Reject(call, ReplyError(reply)))
        /\ UNCHANGED <<thisMaxRetries, thisRetryDelay, authHeader>>

\* getAuthToken(address, password): withRetry is entered, POST /token sent.
CallGetAuthToken(c, address, password) ==
    Begin(c, Attempt([NoCall EXCEPT
                        !.cOp = "getAuthToken",
                        !.cArgs = [NoArgs EXCEPT !.address = address,
                                                 !.password = password],
                        !.pc = "authToken",
                        !.retry = WithRetry(0, 0)]))

\* getAuthToken: POST /token is answered by reply.
RequestAuthToken(c, reply) ==
    LET call == clientCalls[c]
    IN  /\ call.pc = "authToken"
        /\ call.wait = "answer"
        /\ Answered(c, Request(call, "POST", "/token", Undefined, reply),
                IF reply.ok /\ ~reply.isNull
                THEN Succeed([call EXCEPT !.retry = OnResolve(@)],
                             [k \in {"value"} |-> Get(reply.data, "token")])
                ELSE Reject(call, IF reply.ok THEN NullTokenError
                                  ELSE ReplyError(reply)))
        /\ UNCHANGED <<thisMaxRetries, thisRetryDelay, authHeader>>

\* new EmailService(config)
ClientConstructed(configMaxRetries, configRetryDelay) ==
    /\ thisMaxRetries = OrElse(configMaxRetries, DefaultMaxRetries)
    /\ thisRetryDelay = OrElse(configRetryDelay, DefaultRetryDelay)
    /\ authHeader = Undefined
    /\ clientCalls = [c \in Callers |-> NoCall]

\* A step of the call c: the request it waits for is answered, the function
\* it waits for settles, or the timer it waits for fires.
ClientStep(c) ==
    \/ \E reply \in Explored(DomainsReplies, DomainsReply),
          draw \in Explored(UsernameDraws, ShortestDraw) :
          /\ RequestDomains(c, reply, draw)
          /\ Detour(reply # DomainsReply \/ draw # ShortestDraw)
    \/ \E reply \in Explored(AccountReplies(clientCalls[c].cLocal.address),
                              AccountReply(clientCalls[c].cLocal.address)) :
          /\ RequestAccount(c, reply)
          /\ Detour(reply # AccountReply(clientCalls[c].cLocal.address))
          /\ UNCHANGED genVars
    \/ \E reply \in Explored(TokenReplies, TokenReply) :
          RequestToken(c, reply) /\ Detour(reply # TokenReply)
             /\ UNCHANGED genVars
    \/ \E reply \in Explored(TokenReplies, TokenReply) :
          RequestAuth(c, reply) /\ Detour(reply # TokenReply)
             /\ UNCHANGED genVars
    \/ \E reply \in Explored(MessagesReplies, MessagesReply) :
          RequestMessages(c, reply) /\ Detour(reply # MessagesReply)
             /\ UNCHANGED genVars
    \/ \E reply \in Explored(MessageReplies, MessageReply) :
          RequestMessage(c, reply) /\ Detour(reply # MessageReply)
             /\ UNCHANGED genVars
    \/ \E reply \in Explored({NullReply} \cup ErrorReplies, NullReply) :
          RequestDelete(c, reply) /\ Detour(reply # NullReply)
             /\ UNCHANGED genVars
    \/ \E reply \in Explored(TokenReplies, TokenReply) :
          RequestAuthToken(c, reply) /\ Detour(reply # TokenReply)
             /\ UNCHANGED genVars
    \/ \E reply \in Explored({NullReply} \cup ErrorReplies, NullReply) :
          ApiCallSettles(c, reply) /\ Detour(reply # NullReply)
             /\ UNCHANGED genVars
    \/ RetryWaitEnds(c) /\ UNCHANGED <<genVars, detours>>
    \/ PacingEnds(c) /\ UNCHANGED <<genVars, detours>>

NextClient ==
    \/ \E c \in Callers, p \in Explored({Undefined, Lit("pw1")}, Undefined) :
          MayCall(c, MaxOverlapCalls) /\ CallCreateEmailAddress(c, p) /\ Detour(p # Undefined)
             /\ UNCHANGED <<storeVars, appVars, genVars>>
    \/ \E c \in Callers :
          MayCall(c, MaxOverlapCalls) /\ CallGetEmails(c, AddrA, Lit("pw1"))
             /\ UNCHANGED <<storeVars, appVars, genVars, detours>>
    \/ \E c \in Callers :
          MayCall(c, MaxOverlapCalls) /\ CallGetEmailContent(c, Lit("m1"), AddrA, Lit("pw1"))
             /\ UNCHANGED <<storeVars, appVars, genVars, detours>>
    \/ \E c \in Callers, op \in {"deleteEmail", "deleteAccount"},
          id \in Explored({Undefined, Lit("m1")}, Lit("m1")),
          t \in Explored({Undefined, Token}, Token) :
          MayCall(c, MaxOverlapCalls) /\ CallDelete(c, op, id, t)
             /\ Detour(id # Lit("m1") \/ t # Token)
             /\ UNCHANGED <<storeVars, appVars, genVars>>
    \/ \E c \in Callers :
          MayCall(c, MaxOverlapCalls) /\ CallGetAuthToken(c, AddrA, Lit("pw1"))
             /\ UNCHANGED <<storeVars, appVars, genVars, detours>>
    \/ \E c \in Callers :
          MayCall(c, MaxOverlapCalls) /\ CallGetAvailableDomain(c)
             /\ UNCHANGED <<storeVars, appVars, genVars, detours>>
    \/ \E c \in Callers, optMaxRetries \in Explored({0, 2}, 0),
          optRetryDelay \in Explored({0, 500}, 0) :
          MayCall(c, MaxOverlapCalls) /\ CallWithRetry(c, optMaxRetries, optRetryDelay)
             /\ Detour(optMaxRetries # 0 \/ optRetryDelay # 0)
             /\ UNCHANGED <<storeVars, appVars, genVars>>
    \/ direct /\ MayCall(1, MaxOverlapCalls) /\ SetAuthToken(Token)
          /\ UNCHANGED <<thisMaxRetries, thisRetryDelay, clientCalls,
                         storeVars, appVars, genVars, detours>>
    \/ direct /\ MayCall(1, MaxOverlapCalls) /\ ClearAuthToken
          /\ UNCHANGED <<thisMaxRetries, thisRetryDelay, clientCalls,
                         storeVars, appVars, genVars, detours>>
    \/ \E c \in Callers :
          ClientStep(c)
             /\ UNCHANGED <<storeVars, appVars, userVars, made, rejections>>

(***************************************************************************)
(* index.js and CLIInterface, await by await: a function starts an          *)
(* operation (a call of the client or of the store, or a prompt), the       *)
(* operation completes later, step by step of the call it is, and the       *)
(* function goes on from there. The calls are those of StorageService and   *)
(* EmailService above, run in the activations that are free: that no two of *)
(* them overlap is left for the steps of the program to show.               *)
(***************************************************************************)
\* The local variables of a command: the account createEmailAddress returned
\* (result), the list getAddresses returned (addresses), the answers of the
\* prompts (selectedAddress, messageId), the list getEmails returned (emails).
NoLocals ==
    [result |-> EmptyObject, addresses |-> <<>>, selectedAddress |-> EmptyObject,
     emails |-> <<>>, messageId |-> Undefined]

\* The module is loaded: the services are constructed, main is entered.
ProcessLoaded ==
    /\ appPc = "start"
    /\ startedAt = 0
    /\ reported = "none"
    /\ called = 0
    /\ inFlight = <<>>
    /\ handler = "try"
    /\ frames = <<>>
    /\ locals = NoLocals
    /\ username = <<>>
    /\ lengths = {}

Commands == {"create", "list", "inbox", "read"}

\* The operations a function awaits, in order, when every one of them
\* returns something to go on with; main is the function of "start", and
\* "prompt" is inquirer.prompt.
CallsOf(function) ==
    CASE function = "start"  -> <<"cleanupExpired">>
      [] function = "create" -> <<"createEmailAddress", "saveAddress">>
      [] function = "list"   -> <<"getAddresses">>
      [] function = "inbox"  -> <<"getAddresses", "prompt", "getEmails">>
      [] function = "read"   -> <<"getAddresses", "prompt", "getEmails",
                                  "prompt", "getEmailContent">>
      [] OTHER               -> <<>>

\* The method of StorageService a call of the store runs.
MethodOf(op) ==
    CASE op = "cleanup" -> "cleanupExpired"
      [] op = "save"    -> "saveAddress"
      [] op = "list"    -> "getAddresses"
      [] op = "get"     -> "getAddressMetadata"
      [] op = "remove"  -> "removeAddress"
      [] OTHER          -> "none"

\* A caller that does not await goes on at once.
NotAwaited(flight) == TRUE

\* await: the caller goes on when the operation it started has completed.
Awaited(flight) == flight = <<>>

\* The running function starts its next operation. createNewEmail reads the
\* clock twice, the second read d after the first, and passes saveAddress
\* the address of the account createEmailAddress returned and the metadata
\* it has built; checkInbox and readEmail pass the client the address and
\* the password of the record the user selected.
StartCall ==
    /\ appPc \in Commands \cup {"start"}
    /\ called < Len(CallsOf(appPc))
    /\ Awaited(inFlight)
    /\ LET op == CallsOf(appPc)[called + 1]
           address == Get(locals.selectedAddress, "address")
           password == Get(locals.selectedAddress, "password")
       IN  /\ inFlight' = Append(inFlight, op)
           /\ CASE op = "saveAddress" ->
                     \E c \in Callers, d \in Explored({0, 1}, 0) :
                        /\ ticks + d <= MaxTicks
                        /\ now' = now + d
                        /\ ticks' = ticks + d
                        /\ SaveAddress(c, Get(locals.result, "address"),
                              CreatedMetadata(locals.result, now, now + d,
                                              ZoneShift(zone, now, 7)))
                        /\ Detour(d > 0)
                        /\ UNCHANGED clientVars
                [] op = "cleanupExpired" ->
                     /\ UNCHANGED <<now, ticks, clientVars, detours>>
                     /\ \E c \in Callers : CleanupExpired(c)
                [] op = "getAddresses" ->
                     /\ UNCHANGED <<now, ticks, clientVars, detours>>
                     /\ \E c \in Callers : GetAddresses(c, FALSE)
                [] op = "createEmailAddress" ->
                     /\ UNCHANGED <<storeVars, detours>>
                     /\ \E c \in Callers : CallCreateEmailAddress(c, Undefined)
                [] op = "getEmails" ->
                     /\ UNCHANGED <<storeVars, detours>>
                     /\ \E c \in Callers : CallGetEmails(c, address, password)
                [] op = "getEmailContent" ->
                     /\ UNCHANGED <<storeVars, detours>>
                     /\ \E c \in Callers :
                           CallGetEmailContent(c, locals.messageId, address,
                                               password)
                [] OTHER -> UNCHANGED <<storeVars, clientVars, detours>>
    /\ called' = called + 1
    /\ UNCHANGED <<appPc, startedAt, reported, handler, frames, locals, genVars,
                   userVars, made, rejections>>

\* What createNewEmail prints after saveAddress has returned: the value
\* saveAddress resolved to is not looked at.
ReportAfterSave(saved) == "success"

\* flight without its first operation op.
RECURSIVE Without(_, _)
Without(flight, op) ==
    IF flight = <<>> THEN <<>>
    ELSE IF Head(flight) = op THEN Tail(flight)
    ELSE <<Head(flight)>> \o Without(Tail(flight), op)

\* A call of the store takes a step. When it returns, the function that
\* awaits it goes on: main takes no notice of the count, createNewEmail
\* prints its success lines, listAddresses, checkInbox and readEmail return
\* when there are no addresses.
StoreCallStep ==
    /\ \E c \in Callers : StoreStep(c)
    /\ IF storeOp'.op = "none"
       THEN UNCHANGED <<startedAt, reported, called, inFlight, locals>>
       ELSE /\ inFlight' = Without(inFlight, MethodOf(storeOp'.op))
            /\ startedAt' = IF storeOp'.op = "cleanup" THEN storeOp'.t
                            ELSE startedAt
            /\ reported' = IF storeOp'.op = "save"
                           THEN ReportAfterSave(storeRet'.ok) ELSE reported
            /\ called' = IF storeOp'.op = "list" /\ storeRet'.list = <<>>
                         THEN Len(CallsOf(appPc)) ELSE called
            /\ locals' = IF storeOp'.op = "list"
                         THEN [locals EXCEPT !.addresses = storeRet'.list]
                         ELSE locals
    /\ UNCHANGED <<appPc, handler, frames, clientVars, genVars, userVars, made,
                   rejections>>

\* Whether the function that awaited the call goes on to its next operation:
\* not when the call threw (the catch block prints the error), not when
\* createEmailAddress returned nothing, not when getEmails returned no
\* message, and not when email.from.address cannot be read of a message,
\* which names no sender (a TypeError, caught).
GoesOn(call) ==
    /\ call.cResult.status = "ok"
    /\ call.cOp = "createEmailAddress" => call.cResult.value # Undefined
    /\ call.cOp = "getEmails" =>
          /\ Len(call.cResult.value.list) > 0
          /\ \A i \in 1..Len(call.cResult.value.list) :
                Get(call.cResult.value.list[i], "from") # Undefined

\* A call of the client takes a step. When it ends, the function that
\* awaits it goes on with what it returned, or skips the rest; when
\* createEmailAddress threw, the catch block of createNewEmail prints the
\* error.
ClientCallStep ==
    /\ \E c \in Callers :
          /\ ClientStep(c)
          /\ LET call == clientCalls'[c]
             IN  IF call.pc # "idle"
                 THEN UNCHANGED <<reported, called, inFlight, locals>>
                 ELSE /\ inFlight' = Without(inFlight, call.cOp)
                      /\ reported' =
                            IF /\ call.cOp = "createEmailAddress"
                               /\ call.cResult.status = "error"
                            THEN "error" ELSE reported
                      /\ called' = IF GoesOn(call) THEN called
                                   ELSE Len(CallsOf(appPc))
                      /\ locals' =
                            IF ~GoesOn(call) THEN locals
                            ELSE IF call.cOp = "createEmailAddress"
                            THEN [locals EXCEPT !.result = call.cResult.value]
                            ELSE IF call.cOp = "getEmails"
                            THEN [locals EXCEPT
                                    !.emails = call.cResult.value.list]
                            ELSE locals
    /\ UNCHANGED <<storeVars, appPc, startedAt, handler, frames, userVars, made,
                   rejections>>

\* inquirer.prompt of checkInbox and readEmail settles: the user has
\* selected one of the addresses (the first prompt) or one of the messages
\* (the second), or the prompt rejects and the catch block of the command
\* prints the error.
Prompt(answered) ==
    /\ appPc \in {"inbox", "read"}
    /\ \E i \in 1..Len(inFlight) : inFlight[i] = "prompt"
    /\ inFlight' = Without(inFlight, "prompt")
    /\ IF answered
       THEN /\ IF called = 2
               THEN \E i \in 1..Len(locals.addresses) :
                       locals' = [locals EXCEPT
                                    !.selectedAddress = locals.addresses[i]]
               ELSE \E i \in 1..Len(locals.emails) :
                       locals' = [locals EXCEPT
                                    !.messageId = Get(locals.emails[i], "id")]
            /\ UNCHANGED <<called, rejections>>
       ELSE /\ rejections < MaxRejections
            /\ rejections' = rejections + 1
            /\ called' = Len(CallsOf(appPc))
            /\ UNCHANGED locals
    /\ UNCHANGED <<storeVars, clientVars, genVars, appPc, startedAt, reported,
                   handler, frames, userVars, made, detours>>

\* The running function returns: main goes on to showMainMenu, a command
\* returns to the try block of handleCommand, which calls
\* pressEnterToContinue.
Return ==
    /\ appPc \in Commands \cup {"start"}
    /\ called = Len(CallsOf(appPc))
    /\ Awaited(inFlight)
    /\ appPc' = IF appPc = "start" THEN "menu" ELSE "pause"
    /\ handler' = "try"
    /\ called' = 0
    /\ locals' = NoLocals
    /\ UNCHANGED <<storeVars, clientVars, genVars, envVars, startedAt, reported,
                   inFlight, frames>>

\* The process ends (process.exit(0) of the exit command or of the SIGINT
\* handler at any moment, main returning, or process.exit(1) after main has
\* thrown) and the program is started again later: the calls in
\* progress are gone with the process, and the file accesses and requests
\* they wait for are not made; index.js is loaded anew, with a new
\* EmailService and a new StorageService over the file as the process left
\* it.
Exit ==
    /\ calls' = [c \in Callers |-> NoOp]
    /\ initialized' = FALSE
    /\ storeOp' = NoOp
    /\ storeRet' = NoRet
    /\ thisMaxRetries' = DefaultMaxRetries
    /\ thisRetryDelay' = DefaultRetryDelay
    /\ authHeader' = Undefined
    /\ clientCalls' = [c \in Callers |-> NoCall]
    /\ appPc' = "start"
    /\ startedAt' = 0
    /\ reported' = "none"
    /\ called' = 0
    /\ inFlight' = <<>>
    /\ handler' = "try"
    /\ frames' = <<>>
    /\ locals' = NoLocals
    /\ username' = <<>>
    /\ lengths' = {}
    /\ UNCHANGED <<dirExists, fileExists, fileData, fileTorn, now, ticks>>

\* pressEnterToContinue settles. When the user has pressed Enter,
\* handleCommand calls showMainMenu, and the catch block of showMainMenu
\* returns: its callers return one after the other, main returns, and the
\* process ends. When the prompt rejects, the try block of handleCommand
\* throws into its catch block, which calls pressEnterToContinue again; the
\* catch block of handleCommand throws into the showMainMenu that called it,
\* whose catch block calls pressEnterToContinue; and the catch block of
\* showMainMenu throws into the block of handleCommand that waits for it, or
\* into main, which calls process.exit(1).
\* A handleCommand that waits for showMainMenu is thrown into only after two
\* prompts have rejected, the second one the Enter prompt of showMainMenu:
\* of the calls that wait, those are kept that the rejections of a run can
\* reach, the innermost MaxRejections \div 2.
PressEnterToContinue(entered) ==
    /\ appPc = "pause"
    /\ IF entered
       THEN /\ UNCHANGED rejections
            /\ IF handler = "menu"
               THEN Exit
               ELSE /\ appPc' = "menu"
                    /\ frames' =
                          LET longer == Append(frames, handler)
                          IN  IF Len(longer) > MaxRejections \div 2
                              THEN Tail(longer) ELSE longer
                    /\ UNCHANGED <<storeVars, clientVars, genVars, startedAt,
                                   reported, called, inFlight, handler, locals>>
       ELSE /\ rejections < MaxRejections
            /\ rejections' = rejections + 1
            /\ IF handler = "menu" /\ frames = <<>>
               THEN Exit
               ELSE /\ handler' =
                          IF handler = "try" THEN "catch"
                          ELSE IF handler = "catch" THEN "menu"
                          ELSE IF frames[Len(frames)] = "try" THEN "catch"
                          ELSE "menu"
                    /\ frames' = IF handler = "menu"
                                 THEN SubSeq(frames, 1, Len(frames) - 1)
                                 ELSE frames
                    /\ UNCHANGED <<storeVars, clientVars, genVars, appPc,
                                   startedAt, reported, called, inFlight,
                                   locals>>
    /\ UNCHANGED <<userVars, made, detours>>

\* showMainMenu: the user selects a command, handleCommand calls it.
HandleCommand(command) ==
    /\ appPc = "menu"
    /\ appPc' = command
    /\ reported' = "none"
    /\ UNCHANGED <<storeVars, clientVars, genVars, envVars, startedAt, called,
                   inFlight, handler, frames, locals>>

\* showMainMenu: the menu prompt rejects; the catch block prints the error
\* and calls pressEnterToContinue.
MenuRejected ==
    /\ appPc = "menu"
    /\ rejections < MaxRejections
    /\ rejections' = rejections + 1
    /\ appPc' = "pause"
    /\ handler' = "menu"
    /\ UNCHANGED <<storeVars, clientVars, genVars, userVars, made, detours,
                   startedAt, reported, called, inFlight, frames, locals>>

NextApp ==
    \/ StartCall
    \/ StoreCallStep
    \/ ClientCallStep
    \/ \E answered \in BOOLEAN : Prompt(answered)
    \/ Return
    \/ \E entered \in BOOLEAN : PressEnterToContinue(entered)
    \/ \E command \in Commands : HandleCommand(command)
    \/ MenuRejected
    \/ Exit /\ UNCHANGED envVars
    \/ Tick /\ UNCHANGED <<clientVars, appVars, genVars, envVars>>

(***************************************************************************)
(* The specifications: each component on its own, as index.js constructs   *)
(* them, the other ones left alone.                                        *)
(***************************************************************************)
\* The surroundings: a user that makes its calls one at a time, in a zone
\* with or without a clock change; or a user that overlaps its calls. The
\* user of the client may call setAuthToken and clearAuthToken itself.
InitSurroundings ==
    /\ callers \in 1..MaxInFlight
    /\ zone \in Zones
    /\ callers > 1 => zone = NoZoneChange
    /\ made = 0
    /\ detours = 0
    /\ rejections = 0

InitStore ==
    /\ \E hasDir, exists \in BOOLEAN : StoreConstructed(hasDir, exists)
    /\ ClientConstructed(0, 0)
    /\ ProcessLoaded
    /\ InitSurroundings
    /\ direct = FALSE

SpecStore == InitStore /\ [][NextStore]_vars

\* The service is constructed with no configuration, with maxRetries or with
\* retryDelay.
InitClient ==
    /\ \E m \in 0..MaxConfigRetries, d \in {0, 250} :
          (m = 0 \/ d = 0) /\ ClientConstructed(m, d)
    /\ StoreConstructed(TRUE, FALSE)
    /\ ProcessLoaded
    /\ InitSurroundings
    /\ zone = NoZoneChange
    /\ direct \in BOOLEAN
    /\ (callers > 1 \/ direct) => (thisMaxRetries = DefaultMaxRetries
                       /\ thisRetryDelay = DefaultRetryDelay)

SpecClient == InitClient /\ [][NextClient]_vars

\* index.js constructs the two services with no configuration. The program
\* is the user of both: every activation is free for the calls it makes,
\* and its runs are held to MaxDetours detours and MaxRejections rejecting
\* prompts.
InitApp ==
    /\ \E hasDir, exists \in BOOLEAN : StoreConstructed(hasDir, exists)
    /\ ClientConstructed(0, 0)
    /\ ProcessLoaded
    /\ zone \in Zones
    /\ callers = MaxInFlight
    /\ direct = FALSE
    /\ made = 0
    /\ detours = 0
    /\ rejections = 0

SpecApp == InitApp /\ [][NextApp]_vars

InitUsername ==
    /\ InitStore
    /\ fileExists
    /\ callers = 1
    /\ zone = NoZoneChange

NextUsername ==
    GenerateLocalPart /\ UNCHANGED <<storeVars, clientVars, appVars, envVars>>

SpecUsername == InitUsername /\ [][NextUsername]_vars

(***************************************************************************)
(* Claims about the address store. They are stated of the state a call     *)
(* has just returned in: storeOp is the call, storeRet what it returned,   *)
(* storeOp.before the file as it was when the call was made. A call that   *)
(* ran alone had no other call in progress from its start to its return.   *)
(***************************************************************************)
\* How many records of list carry the address a.
CountAddress(list, a) ==
    Cardinality({i \in 1..Len(list) : Get(list[i], "address") = a})

\* The first record of list carrying the address a.
RecordOf(list, a) == list[FindIndex(list, a)]

\* The keys of a record that saveAddress computes itself.
ComputedKeys == {"address", "createdAt", "updatedAt", "expiresAt"}

\* The collection a file holds for its readers.
Stored(file) == ReadFromFile(file, TRUE)

\* The last step was the return of a call that ran alone and none of whose
\* accesses failed.
Undisturbed == storeOp.op # "none" /\ storeOp.alone /\ ~storeOp.faulty

\* C1: after any sequence of save, remove and cleanupExpired calls on an
\* initially empty store, for any metadata (also metadata carrying an address
\* field), the persisted collection holds at most one record per address.
C1_AddressUnique ==
    \A i, j \in 1..Len(fileData) :
        i # j => Get(fileData[i], "address") # Get(fileData[j], "address")

\* C2: save(a, m1) followed later by save(a, m2) leaves exactly one record for
\* a, with the metadata fields of m2, updatedAt the time of the second save and
\* createdAt still the value the first save set. Stated of every successful
\* save, alone and without a failed access, of an address that has its record
\* already, with metadata that names no other address.
C2_IdempotentUpsert ==
    \A a \in Addresses :
        ( /\ Undisturbed
          /\ storeOp.op = "save"
          /\ storeOp.address = a
          /\ storeRet.ok
          /\ "address" \notin DOMAIN storeOp.metadata
          /\ CountAddress(Stored(storeOp.before), a) = 1 )
        => /\ CountAddress(fileData, a) = 1
           /\ LET after == RecordOf(fileData, a)
                  m2 == storeOp.metadata
              IN  /\ \A k \in (DOMAIN m2) \ ComputedKeys : Get(after, k) = m2[k]
                  /\ Get(after, "updatedAt") = ToISOString(storeOp.t)
                  /\ Get(after, "createdAt")
                        = Get(RecordOf(Stored(storeOp.before), a), "createdAt")

\* C10: list(false) returns exactly the stored records whose expiresAt is
\* strictly later than the clock value read at that call (a record whose
\* expiresAt equals now is left out); list(true) returns every stored record.
C10_ExpirationFilter ==
    (storeOp.op = "list" /\ storeOp.readOk)
    => IF storeOp.includeExpired
       THEN storeRet.list = fileData
       ELSE storeRet.list =
              SelectSeq(fileData,
                        LAMBDA r : /\ Get(r, "expiresAt").t = "isodate"
                                   /\ Get(r, "expiresAt").n > storeOp.t)

\* A list(false) call that leaves out a record expiring exactly now and
\* returns another one.
C10_Witness ==
    /\ storeOp.op = "list"
    /\ storeOp.readOk
    /\ ~storeOp.includeExpired
    /\ Len(storeRet.list) = 1
    /\ \E i \in 1..Len(fileData) :
          Get(fileData[i], "expiresAt") = ToISOString(storeOp.t)

\* The stored records that are not expired at the instant nowMs.
Unexpired(list, nowMs) ==
    SelectSeq(list, LAMBDA r : /\ Get(r, "expiresAt").t = "isodate"
                               /\ Get(r, "expiresAt").n > nowMs)

\* C11: a cleanupExpired call, alone, that read the file returns the number of
\* records it removed from the persisted collection, leaves exactly the
\* records whose expiresAt is later than now, unaltered, and on an instance
\* already initialized leaves the file as it was when it returns 0.
C11_CleanupCount ==
    (storeOp.op = "cleanup" /\ storeOp.alone /\ storeOp.readOk)
    => /\ storeRet.count = Len(storeOp.addresses) - Len(Stored(File))
       /\ Stored(File) = Unexpired(storeOp.addresses, storeOp.t)
       /\ (storeRet.count = 0 /\ ~storeOp.ranInit) => File = storeOp.before

\* C12: a removeAddress call, alone and with no access failing, returns false
\* and leaves the collection alone when no record has the address; otherwise
\* it returns true, no record with the address is left (get(address) finds
\* none), and the records of other addresses are the same, in the same order.
C12_RemoveFrame ==
    \A a \in Addresses :
        (Undisturbed /\ storeOp.op = "remove" /\ storeOp.address = a)
        => IF CountAddress(Stored(storeOp.before), a) = 0
           THEN /\ ~storeRet.ok
                /\ Stored(File) = Stored(storeOp.before)
                /\ ~storeOp.ranInit => File = storeOp.before
           ELSE /\ storeRet.ok
                /\ FindIndex(Stored(File), a) = 0
                /\ Stored(File) =
                     SelectSeq(Stored(storeOp.before),
                               LAMBDA r : Get(r, "address") # a)

\* A remove that returned true and left the record of the other address.
C12_Witness ==
    /\ Undisturbed
    /\ storeOp.op = "remove"
    /\ storeRet.ok
    /\ Len(storeOp.before.data) = 2
    /\ Len(fileData) = 1
    /\ CountAddress(fileData, storeOp.address) = 0

\* C13: a getAddressMetadata(a) call made right after a successful
\* saveAddress(a, m) has returned, alone and with no access failing, finds a
\* record, its address is a, and every field of m other than expiresAt and
\* updatedAt has the value passed.
C13_RoundTrip ==
    \A a \in Addresses :
        ( /\ Undisturbed
          /\ storeOp.op = "get"
          /\ storeOp.address = a
          /\ storeOp.after.ok
          /\ storeOp.after.address = a )
        => /\ storeRet.found
           /\ Len(storeRet.list) = 1
           /\ Get(storeRet.list[1], "address") = a
           /\ \A k \in (DOMAIN storeOp.after.metadata) \ {"expiresAt", "updatedAt"} :
                 Get(storeRet.list[1], k) = storeOp.after.metadata[k]

\* The instant a stored date string names.
InstantOf(v) == NewDate(v).ms

\* C14: the record a successful save has just written carries updatedAt = now
\* and expiresAt = now + the expiration window of one clock value, whatever
\* metadata supplied: expiresAt = updatedAt + window, createdAt <= updatedAt,
\* and the record is not expired at the end of the call.
C14_ComputedTimestamps ==
    \A a \in Addresses :
        ( /\ Undisturbed
          /\ storeOp.op = "save"
          /\ storeOp.address = a
          /\ storeRet.ok
          /\ "address" \notin DOMAIN storeOp.metadata )
        => LET r == RecordOf(fileData, a)
           IN  /\ Get(r, "updatedAt") = ToISOString(storeOp.t)
               /\ InstantOf(Get(r, "expiresAt"))
                    = InstantOf(Get(r, "updatedAt")) + ExpirationMs
               /\ InstantOf(Get(r, "createdAt")) <= InstantOf(Get(r, "updatedAt"))
               /\ NotExpired(r, now)

\* C15: a save or remove, alone, whose write fails returns false, and a save
\* or remove that returns false leaves the persisted collection as the call
\* read it; a get whose read failed or met unparsable content finds nothing
\* and a list whose read failed returns the empty sequence.
C15_StorageFailures ==
    /\ (storeOp.op \in {"save", "remove"} /\ storeOp.alone /\ storeOp.readOk)
         => /\ ~storeOp.writeOk => ~storeRet.ok
            /\ ~storeRet.ok => Stored(File) = storeOp.addresses
    /\ (storeOp.op = "get" /\ ~storeOp.readOk)
         => ~storeRet.found /\ storeRet.list = <<>>
    /\ (storeOp.op = "list" /\ ~storeOp.readOk)
         => storeRet.list = <<>>

\* C16: every store call leaves the instance initialized; the collection a
\* call reads after its initialization is the one the file held before it
\* (initialization creates an empty collection only for an absent file and
\* replaces none); a get or list leaves the collection as it was, and on an
\* instance already initialized leaves the file as it was.
C16_LazyInitialization ==
    /\ storeOp.op # "none" => initialized
    /\ (storeOp.op # "none" /\ storeOp.alone /\ storeOp.ranInit /\ storeOp.readOk)
         => storeOp.addresses = Stored(storeOp.before)
    /\ (storeOp.op \in {"get", "list"} /\ storeOp.alone)
         => /\ Stored(File) = Stored(storeOp.before)
            /\ ~storeOp.ranInit => File = storeOp.before

\* The records of list whose expiresAt has passed at the instant nowMs.
Expired(list, nowMs) ==
    {list[i] : i \in {j \in 1..Len(list) : ~NotExpired(list[j], nowMs)}}

\* The records of list, as a set.
Records(list) == {list[i] : i \in 1..Len(list)}

\* C21: a get or list call, alone, leaves an existing persisted collection as
\* it is, and a record whose expiresAt has passed is gone from the collection
\* after a call only if that call was a remove or a cleanupExpired: reads
\* filter expired records and never rewrite the collection.
C21_ReadsDoNotRewrite ==
    /\ (storeOp.op \in {"get", "list"} /\ storeOp.alone /\ storeOp.before.exists)
         => /\ fileExists
            /\ Stored(File) = Stored(storeOp.before)
    /\ \A r \in Expired(Stored(storeOp.before), now) :
          ( /\ storeOp.op # "none"
            /\ storeOp.alone
            /\ CountAddress(Stored(File), Get(r, "address")) = 0 )
          => storeOp.op \in {"remove", "cleanup"}

\* C22: after a successful save(a, m), alone, with m naming no other address,
\* every record stored before the call for another address is still there
\* with the same fields, also when the read inside save failed.
C22_SaveFrame ==
    \A a \in Addresses :
        ( /\ storeOp.op = "save"
          /\ storeOp.alone
          /\ storeOp.address = a
          /\ storeRet.ok
          /\ "address" \notin DOMAIN storeOp.metadata )
        => \A r \in Records(Stored(storeOp.before)) :
              Get(r, "address") # a => r \in Records(Stored(File))

(***************************************************************************)
(* Claims about the mailbox provider client. They are stated of every      *)
(* call, in progress or ended; a call that ran alone had no other call of  *)
(* the client in progress from its start on.                               *)
(***************************************************************************)
\* C3: for maxRetries >= 1 the retry wrapper invokes the call at most
\* maxRetries times, returns at the first attempt that succeeds, and when all
\* maxRetries attempts fail it throws an error embedding the attempt count and
\* the last underlying message; it returns nothing without a successful
\* attempt, and while it runs an attempt is always left to make: the one in
\* progress, or the next one once the wait after a failure is over.
C3_BoundedRetry ==
    \A c \in Callers :
        LET call == clientCalls[c]
            retry == call.retry
        IN  retry.status # "unused"
            => /\ retry.max >= 1
               /\ retry.calls <= retry.max
               /\ retry.status = "running"
                    => /\ call.pc # "idle"
                       /\ retry.calls = retry.attempt
                       /\ IF call.wait = "retry"
                          THEN /\ retry.attempt < retry.max
                               /\ Len(retry.fails) = retry.attempt
                          ELSE /\ retry.attempt <= retry.max
                               /\ Len(retry.fails) = retry.attempt - 1
               /\ retry.status = "returned"
                    => /\ retry.lastOk
                       /\ Len(retry.fails) = retry.calls - 1
                       /\ call.cResult.status = "ok"
               /\ retry.status = "threw"
                    => /\ ~retry.lastOk
                       /\ retry.calls = retry.max
                       /\ Len(retry.fails) = retry.max
                       /\ call.cResult.status = "error"
                       /\ retry.error.message =
                            Str(<<"Operation failed after ">>
                                \o NumberPieces(retry.max)
                                \o <<" attempts: ">>
                                \o retry.lastError.message.s)

\* HTTP 429 on every attempt with maxRetries = 3: thrown after exactly 3 attempts.
C3_Witness ==
    \E c \in Callers :
        /\ clientCalls[c].retry.status = "threw"
        /\ clientCalls[c].retry.max = 3
        /\ clientCalls[c].retry.calls = 3
        /\ clientCalls[c].retry.fails = <<429, 429, 429>>

\* C4: after failed attempt k < maxRetries the wrapper waits baseDelay * 2^(k-1)
\* when that failure was an HTTP 429 and baseDelay for any other failure, and it
\* does not wait after the final failed attempt.
C4_BackoffSchedule ==
    \A c \in Callers :
        LET retry == clientCalls[c].retry
        IN  retry.status # "unused"
            => /\ Len(retry.waits) =
                    IF retry.status = "threw" THEN Len(retry.fails) - 1
                    ELSE Len(retry.fails)
               /\ \A k \in 1..Len(retry.waits) :
                    retry.waits[k] =
                        IF retry.fails[k] = 429 THEN retry.delay * 2 ^ (k - 1)
                        ELSE retry.delay

\* Two 429 failures, then success on the third attempt (maxRetries = 3): the
\* wait before the third attempt was baseDelay * 2.
C4_Witness ==
    \E c \in Callers :
        LET retry == clientCalls[c].retry
        IN  /\ retry.status = "returned"
            /\ retry.max = 3
            /\ retry.fails = <<429, 429>>
            /\ retry.waits = <<retry.delay, retry.delay * 2>>

\* The kind the error mapping gives a response status.
MappedMessage(status) ==
    CASE status = 422 -> InvalidAddressFormat
      [] status = 429 -> RateLimited
      [] status = 400 -> BadRequest
      [] status = 403 -> Forbidden
      [] status = 500 -> ProviderServerError

\* C5: when createEmailAddress, called alone, fails because the provider
\* answered with HTTP status s, the error surfaced is of the kind mapped from
\* s, also when the failure is surfaced after the retry budget is exhausted.
C5_StatusMapping ==
    \A c \in Callers :
        LET call == clientCalls[c]
        IN  ( /\ call.alone
              /\ call.cOp = "createEmailAddress"
              /\ call.cResult.status = "error"
              /\ call.retry.status = "threw"
              /\ call.retry.lastError.status \in {422, 429, 400, 403, 500} )
            => call.cResult.error.message
                 = Str(MappedMessage(call.retry.lastError.status))

\* The paths of the requests that need no authentication.
OpenPaths == {"/domains", "/accounts", "/token"}

\* C6: once getEmails or getEmailContent, one of a sequence of calls made one
\* at a time by a user that leaves setAuthToken and clearAuthToken alone, has
\* completed, by success or by any failure, the client's default
\* Authorization header is absent; and every request of such a call to
\* /domains, /accounts or /token goes out without that header.
C6_NoTokenLeak ==
    \A c \in Callers :
        LET call == clientCalls[c]
        IN  (call.alone /\ ~direct)
            => /\ (call.pc = "idle" /\ call.cOp \in {"getEmails", "getEmailContent"})
                    => authHeader = Undefined
               /\ call.lastReq.path \in OpenPaths
                    => call.lastReq.auth = Undefined

\* A getEmails call that sent GET /messages under the token and then failed.
C6_Witness ==
    \E c \in Callers :
        LET call == clientCalls[c]
        IN  /\ call.alone
            /\ ~direct
            /\ call.pc = "idle"
            /\ call.cOp = "getEmails"
            /\ call.cResult.status = "error"
            /\ call.lastReq.path = "/messages"
            /\ call.lastReq.auth = Bearer(Token)
            /\ authHeader = Undefined

\* C7: each provider request of getEmails and getEmailContent is attempted up
\* to maxRetries times before the call fails.
C7_FetchRetries ==
    \A c \in Callers :
        LET call == clientCalls[c]
        IN  ( /\ call.alone
              /\ call.cOp \in {"getEmails", "getEmailContent"}
              /\ call.cResult.status = "error"
              /\ call.lastReq.status # 200 )
            => call.lastReq.nth = thisMaxRetries

\* C8: getEmails and getEmailContent, called one at a time by a user that
\* leaves setAuthToken and clearAuthToken alone, send the authenticated GET
\* only under the token their own POST /token returned; when that response
\* carries no token the GET is never issued.
C8_NoRequestWithoutToken ==
    \A c \in Callers :
        LET call == clientCalls[c]
        IN  ( /\ call.alone
              /\ ~direct
              /\ call.cOp \in {"getEmails", "getEmailContent"}
              /\ call.lastReq.method = "GET" )
            => call.lastReq.auth = Bearer(Token)

\* C9: whenever createEmailAddress, called alone, returns, the record holds
\* the provider's identifier, the token of the token response, the password
\* passed in (or the default) and the composed address localPart@domain.
C9_ProvisioningResult ==
    \A c \in Callers :
        LET call == clientCalls[c]
        IN  ( /\ call.alone
              /\ call.cOp = "createEmailAddress"
              /\ call.cResult.status = "ok" )
            => /\ Get(call.cResult.value, "id") = AccountId
               /\ Get(call.cResult.value, "token") = Token
               /\ Get(call.cResult.value, "password") = call.cArgs.password
               /\ Get(call.cResult.value, "address") = call.cLocal.address

\* The calls that delete at the provider.
DeleteOps == {"deleteEmail", "deleteAccount"}

\* C17 (states): while and after deleteEmail or deleteAccount runs, the only
\* request it has sent is a DELETE carrying Bearer <the caller's token> in its
\* own header; with the identifier or the token missing it has failed with
\* no request sent and no retry entered; otherwise it ends returning true
\* after a successful attempt, or failing after maxRetries failed attempts.
C17_DeleteState ==
    \A c \in Callers :
        LET call == clientCalls[c]
        IN  call.cOp \in DeleteOps
            => /\ call.lastReq.method \in {"none", "DELETE"}
               /\ call.lastReq.method = "DELETE"
                    => /\ call.lastReq.auth = Bearer(call.cArgs.token)
                       /\ ~Falsy(call.cArgs.id)
                       /\ ~Falsy(call.cArgs.token)
               /\ (Falsy(call.cArgs.id) \/ Falsy(call.cArgs.token))
                    => /\ call.pc = "idle"
                       /\ call.cResult.status = "error"
                       /\ call.lastReq = NoReq
                       /\ call.retry = NoRetry
               /\ (call.pc = "idle" /\ ~Falsy(call.cArgs.id)
                                    /\ ~Falsy(call.cArgs.token))
                    => \/ /\ call.cResult.status = "ok"
                          /\ call.cResult.value = [k \in {"value"} |-> TRUE]
                          /\ call.lastReq.status = 200
                       \/ /\ call.cResult.status = "error"
                          /\ call.retry.calls = call.retry.max
                          /\ Len(call.retry.fails) = call.retry.max
                          /\ call.lastReq.status # 200

\* C17 (steps): no step of deleteEmail or deleteAccount, the call included,
\* changes the client's default Authorization header.
C17_DeleteStep ==
    \A c \in Callers :
        (clientCalls'[c] # clientCalls[c] /\ clientCalls'[c].cOp \in DeleteOps)
        => authHeader' = authHeader

\* C17: deleteEmail and deleteAccount never issue POST /token, send the
\* caller's token as a header of the request itself, leave the default
\* Authorization header unchanged, fail without any request or retry when the
\* identifier or the token is missing, and otherwise return true unless every
\* attempt failed.
C17_DeleteUsesCallerToken == [](C17_DeleteState) /\ [][C17_DeleteStep]_vars

\* deleteAccount returned true at its second attempt, the DELETE sent under
\* the caller's token, the default header absent.
C17_Witness ==
    \E c \in Callers :
        LET call == clientCalls[c]
        IN  /\ call.cOp = "deleteAccount"
            /\ call.pc = "idle"
            /\ call.cResult.status = "ok"
            /\ call.retry.calls = 2
            /\ call.lastReq.method = "DELETE"
            /\ call.lastReq.auth = Bearer(Token)
            /\ authHeader = Undefined

\* The composite creation call of createEmailAddress is the one retried.
InCreation(call) ==
    /\ call.cOp = "createEmailAddress"
    /\ call.pc \in {"accounts", "token"}
         \/ call.lastReq.path \in {"/accounts", "/token"}

\* C19 (states): the composite creation call runs under a budget of 5 attempts
\* and a base delay of 3000 ms whatever the service was configured with; every
\* other retried operation (the domain lookup, getAuthToken, deleteEmail,
\* deleteAccount) runs under this.maxRetries and this.retryDelay, which are
\* 3 and 1000 ms for a service constructed without configuration, as
\* index.js constructs it; no budget is exceeded.
C19_BudgetState ==
    \A c \in Callers :
        LET call == clientCalls[c]
            retry == call.retry
        IN  (retry.status # "unused" /\ call.cOp # "withRetry")
            => /\ retry.calls <= retry.max
               /\ IF InCreation(call)
                  THEN retry.max = 5 /\ retry.delay = 3000
                  ELSE /\ retry.max = thisMaxRetries
                       /\ retry.delay = thisRetryDelay
                       /\ (thisMaxRetries = 3 /\ thisRetryDelay = 1000)
                            => (retry.calls <= 3 /\ retry.delay = 1000)

\* C19 (steps): a call that enters the retry wrapper starts with its first
\* attempt and nothing carried over from the call before, and so does the
\* creation call after the domain lookup.
C19_BudgetStep ==
    \A c \in Callers :
        ( /\ clientCalls'[c].retry.status # "unused"
          /\ \/ clientCalls[c].pc = "idle" /\ clientCalls'[c].pc # "idle"
             \/ clientCalls[c].pc = "domains" /\ clientCalls'[c].pc = "accounts" )
        => /\ clientCalls'[c].retry.attempt = 1
           /\ clientCalls'[c].retry.calls = 1
           /\ clientCalls'[c].retry.fails = <<>>
           /\ clientCalls'[c].retry.waits = <<>>

\* C19: within createEmailAddress the composite creation step is attempted at
\* most 5 times with base delay 3 s, every other retried operation at most 3
\* times with base delay 1 s; budgets are per call, each call starting again
\* from attempt 1.
C19_RetryBudgets == [](C19_BudgetState) /\ [][C19_BudgetStep]_vars

\* A service constructed without configuration: the domain lookup succeeded
\* at its third attempt and the creation call then failed after 5 attempts.
C19_Witness ==
    \E c \in Callers :
        LET call == clientCalls[c]
        IN  /\ thisMaxRetries = 3
            /\ thisRetryDelay = 1000
            /\ call.cOp = "createEmailAddress"
            /\ call.pc = "idle"
            /\ call.retry.status = "threw"
            /\ call.retry.calls = 5
            /\ call.retry.delay = 3000
            /\ Len(call.retry.waits) = 4

LowercaseLetters ==
    {"a", "b", "c", "d", "e", "f", "g", "h", "i", "j", "k", "l", "m",
     "n", "o", "p", "q", "r", "s", "t", "u", "v", "w", "x", "y", "z"}

\* C18: whatever Math.random() returns, the generated username has a length
\* in 12..16 and only the letters a..z; each of the five lengths is generated
\* by some draw.
C18_LocalPart ==
    /\ lengths \subseteq 12..16
    /\ username # <<>>
         => /\ Len(username) \in 12..16
            /\ \A i \in 1..Len(username) : username[i] \in LowercaseLetters

\* Usernames of all five lengths have been generated, the last one of length
\* 16 holding both an a and a z.
C18_Witness ==
    /\ lengths = 12..16
    /\ Len(username) = 16
    /\ \E i, j \in 1..16 : username[i] = "a" /\ username[j] = "z"

\* C24 (one step): when createEmailAddress, called alone, sends POST
\* /accounts (its pacing timer fires), no earlier attempt of the same call
\* has been answered with an account identifier.
C24_AccountStep ==
    \A c \in Callers :
        ( /\ clientCalls[c].alone
          /\ clientCalls[c].cOp = "createEmailAddress"
          /\ clientCalls[c].pc = "accounts"
          /\ clientCalls[c].wait = "pace"
          /\ clientCalls'[c].wait = "answer" )
        => Falsy(Get(clientCalls[c].cLocal.accountData, "id"))

\* C24: within one createEmailAddress call, once POST /accounts has returned
\* an identifier for the generated address, no later attempt sends POST
\* /accounts for that address again; a failure of the token step alone does
\* not re-send the account creation.
C24_AccountCreatedOnce == [][C24_AccountStep]_vars

(***************************************************************************)
(* Claims about the program as a whole.                                    *)
(***************************************************************************)
\* C20: whenever the menu is up, cleanupExpired having been awaited by main,
\* the persisted collection holds no record that was expired when the program
\* started.
C20_StartupCleanup ==
    appPc = "menu"
    => \A i \in 1..Len(fileData) :
          InstantOf(Get(fileData[i], "expiresAt")) > startedAt

\* C25 (states): after a create command that reported the address as ready,
\* the save has written the file and the file holds a record of that address.
C25_ReportedState ==
    (reported = "success" /\ storeOp.op = "save")
        => /\ storeRet.ok
           /\ CountAddress(Stored(File), storeOp.address) >= 1

\* C25 (steps): while the create command runs, the file changes only under
\* the saveAddress call the command makes once createEmailAddress has
\* returned an account, no error having been printed.
C25_StoredStep ==
    (appPc = "create" /\ File' # File)
        => (inFlight = <<"saveAddress">> /\ reported = "none")

\* C25: success is reported only for persisted addresses: a create command
\* whose provisioning failed leaves the stored collection as it was, and one
\* that reports the address as ready has written its record to the store.
C25_SuccessOnlyIfPersisted == [] C25_ReportedState /\ [][C25_StoredStep]_vars

\* The calls of the store and of the client in progress.
StoreCallsInFlight == {c \in Callers : Busy(c)}
ClientCallsInFlight == {c \in Callers : ~Idle(c)}

\* A prompt is shown: the menu, the Enter prompt, or a prompt of a command.
PromptShown ==
    \/ appPc \in {"menu", "pause"}
    \/ \E i \in 1..Len(inFlight) : inFlight[i] = "prompt"

====
